---- MODULE Spec2Model ----
(***************************************************************************)
(* State-machine model of the habit/performance tracking backend           *)
(* (src/app): request handlers of the check-in, habit and goal routes,     *)
(* the per-request database session of get_db, and the scoring, burnout    *)
(* and insight engines they call.                                          *)
(*                                                                         *)
(* Encoding.  Dates are day numbers (day 0 is a Monday).  Hours are held   *)
(* in tenths of an hour and every 0-100 score in tenths of a point, so     *)
(* that round(x, 1) of the code is an integer here.  Rows carry the id the *)
(* ORM gives them: uuid4 in the code, here the number of the request that  *)
(* inserts the row paired with the kind of row.                            *)
(***************************************************************************)
EXTENDS Integers, Sequences, FiniteSets, TLC

VARIABLES
    now,             \* wall clock: the day datetime.utcnow()/date.today() falls on
    daily_logs,      \* committed rows of table daily_logs
    streaks,         \* committed rows of table streaks
    burnout_scores,  \* committed rows of table burnout_scores
    insights,        \* committed rows of table insights
    events,          \* committed rows of table events
    users,           \* committed rows of table users (id, last_checkin)
    habits,          \* committed rows of table habits
    habit_logs,      \* committed rows of table habit_logs
    goals,           \* committed rows of table goals
    requests,        \* number of requests accepted so far
    sess,            \* one request per session: position, request, uncommitted writes
    cell             \* argument/result cell of the function-level specifications

vars == <<now, daily_logs, streaks, burnout_scores, insights, events, users,
          habits, habit_logs, goals, requests, sess, cell>>

----------------------------------------------------------------------------
(* Values *)

\* SQL NULL / Python None in a numeric column.
NoValue == -1

UserIds == {"u1"}

----------------------------------------------------------------------------
(* Arithmetic helpers: the code's float arithmetic on a decimal grid. *)

Min2(a, b) == IF a <= b THEN a ELSE b
Max2(a, b) == IF a >= b THEN a ELSE b
Abs(a) == IF a < 0 THEN 0 - a ELSE a

RECURSIVE SumSeq(_)
SumSeq(xs) == IF xs = <<>> THEN 0 ELSE Head(xs) + SumSeq(Tail(xs))

RECURSIVE SumSqSeq(_)
SumSqSeq(xs) == IF xs = <<>> THEN 0 ELSE Head(xs) * Head(xs) + SumSqSeq(Tail(xs))

RECURSIVE Gcd(_, _)
Gcd(a, b) == IF b = 0 THEN a ELSE Gcd(b, a % b)

\* round(num/den) to the nearest integer, ties to even (Python's round), num >= 0, den > 0.
RoundHalfEven(num, den) ==
    LET q == num \div den
        r == num % den
    IN  IF 2 * r < den THEN q
        ELSE IF 2 * r > den THEN q + 1
        ELSE q + (q % 2)

\* floor(num * 10^k / den) by long division, num >= 0, den > 0.
RECURSIVE FixDiv(_, _, _)
FixDiv(num, den, k) ==
    IF k = 0 THEN num \div den
    ELSE (num \div den) * (10 ^ k) + FixDiv(10 * (num % den), den, k - 1)

\* floor(sqrt(n)) for an integer n >= 0.
RECURSIVE ISqrtFrom(_, _)
ISqrtFrom(n, s) == IF (s + 1) * (s + 1) > n THEN s ELSE ISqrtFrom(n, s + 1)
ISqrt(n) == ISqrtFrom(n, 0)

\* The largest decimal digit d with (20 s + d) d <= cur (one step of the written
\* square-root method).
RECURSIVE SqrtDigit(_, _, _)
SqrtDigit(s, cur, d) == IF d > 0 /\ (20 * s + d) * d > cur THEN SqrtDigit(s, cur, d - 1) ELSE d

\* floor(sqrt(num/den) * 10^k): the digits of the root, two digits of num/den at a
\* time.  s: root so far, rem: remainder of the root, r: remainder of the division.
RECURSIVE SqrtDigits(_, _, _, _, _)
SqrtDigits(s, rem, r, den, k) ==
    IF k = 0 THEN s
    ELSE LET pair == (100 * r) \div den
             cur  == 100 * rem + pair
             d    == SqrtDigit(s, cur, 9)
         IN  SqrtDigits(10 * s + d, cur - (20 * s + d) * d, (100 * r) % den, den, k - 1)

SqrtFix(num, den, k) ==
    LET i == num \div den
        s == ISqrt(i)
    IN  SqrtDigits(s, i - s * s, num % den, den, k)

\* The engines' float arithmetic is carried with five digits behind the point.
FixOne == 10 ^ 5
Fix(num, den) == FixDiv(num, den, 5)

\* n * sum(x^2) - (sum x)^2 = n (n - 1) * variance(xs): statistics.stdev without the root.
SSn(xs) == Len(xs) * SumSqSeq(xs) - SumSeq(xs) * SumSeq(xs)


----------------------------------------------------------------------------
(* Scoring engine: src/app/services/scoring.py *)

\* Low distraction bonus keyed by the interruption count.
DistractionBonus(interruptions) ==
    IF interruptions <= 2 THEN 100
    ELSE IF interruptions <= 5 THEN 75
    ELSE IF interruptions <= 10 THEN 50
    ELSE IF interruptions <= 15 THEN 25
    ELSE 10

\* calculate_productivity_score, in tenths.  With P = tasks_planned (1 when no tasks
\* are planned), 400 P times the weighted sum is the integer num below.
calculate_productivity_score(log) ==
    LET dw4 == Min2(5 * log.deep_work_hours, 400)      \* 4 * deep_work_normalized
        fn  == log.focus_score * 10                    \* focus_normalized
        P   == IF log.tasks_planned > 0 THEN log.tasks_planned ELSE 1
        tnP == IF log.tasks_planned > 0                \* P * task_normalized
               THEN Min2(Min2(100 * log.tasks_completed, 150 * P), 100 * P)
               ELSE IF log.tasks_completed > 0 THEN 50 ELSE 0
        en  == log.energy_score * 10                   \* energy_normalized
        db  == DistractionBonus(log.interruptions)
        num == 35 * dw4 * P + 4 * P * (25 * fn + 15 * en + 10 * db) + 4 * 15 * tnP
    IN  IF num <= 0 THEN 0
        ELSE IF num >= 100 * 400 * P THEN 1000
        ELSE RoundHalfEven(num, 40 * P)

\* The weighted sum of calculate_energy_index rounded without the clamp of
\* line 77.
energy_index_unclamped(log) ==
    RoundHalfEven(48 * log.energy_score * 10 + 9 * Min2(5 * log.sleep_hours, 400)
                  + 24 * (10 - log.stress_level) * 10
                  + 4 * Min2(log.exercise_minutes, 60), 12)

\* calculate_energy_index, in tenths: 120 times the weighted sum is num.
calculate_energy_index(log) ==
    LET eb  == log.energy_score * 10                   \* energy_base
        sf4 == Min2(5 * log.sleep_hours, 400)          \* 4 * sleep_factor
        sp  == (10 - log.stress_level) * 10            \* stress_penalty
        xb3 == Min2(log.exercise_minutes, 60)          \* 3 * exercise_bonus
        num == 48 * eb + 9 * sf4 + 24 * sp + 4 * xb3
    IN  IF num <= 0 THEN 0
        ELSE IF num >= 100 * 120 THEN 1000
        ELSE RoundHalfEven(num, 12)

\* max(0, 100 - stdev(xs) / maxStd * 100) in 1e-5 points; xs in tenths of the unit,
\* maxStd10 = 10 * maxStd.  The term subtracted is the root of
\* 10^4 SSn / (maxStd10^2 n (n-1)), the fraction reduced by g.
ConsistencyFactor(xs, maxStd10) ==
    LET n   == Len(xs)
        g   == Gcd(10000, maxStd10 * maxStd10)
        num == (10000 \div g) * SSn(xs)
        den == ((maxStd10 * maxStd10) \div g) * n * (n - 1)
    IN  IF num \div den >= 10000 THEN 0
        ELSE 100 * FixOne - SqrtFix(num, den, 5)

\* The query of calculate_consistency_score: the user's logs with
\* target_date - window <= log_date <= target_date, ordered by log_date.
ConsistencyWindow == 7

\* The computation of calculate_consistency_score on the queried logs (a sequence),
\* in tenths.
ConsistencyOf(logs) ==
    LET n == Len(logs)
        scores == [i \in 1..n |-> logs[i].productivity_score]
        sleep_times == [i \in 1..n |-> logs[i].sleep_hours]
        work_times == [i \in 1..n |-> logs[i].work_hours]
        factors == ConsistencyFactor(scores, 300) + ConsistencyFactor(sleep_times, 30)
                   + ConsistencyFactor(work_times, 40)
        streak_bonus == Fix(20 * Min2(n, ConsistencyWindow), ConsistencyWindow)
        total == factors \div 3 + streak_bonus
    IN  IF n < 3 THEN 500
        ELSE IF total >= 100 * FixOne THEN 1000
        ELSE RoundHalfEven(total, FixOne \div 10)


----------------------------------------------------------------------------
(* Burnout engine: src/app/services/burnout.py *)

BurnoutWindow == 14
BurnoutMinLogs == 5

\* `l.productivity_score or 50`: None and 0.0 both count as 50.
ProdOr50(log) ==
    IF log.productivity_score = NoValue \/ log.productivity_score = 0 THEN 500
    ELSE log.productivity_score

SumField(logs, f) == SumSeq([i \in 1..Len(logs) |-> logs[i][f]])
SumProd(logs) == SumSeq([i \in 1..Len(logs) |-> ProdOr50(logs[i])])

\* A default that reports the middle of the scale for a user without data.
burnout_default_midscale ==
    [risk_score |-> 500, risk_category |-> "high", workload_trend |-> 0, energy_decline |-> 0,
     sleep_deficit |-> 0, stress_score |-> 0, productivity_drop |-> 0,
     trend_direction |-> "stable", trend_change |-> 0,
     recommendations |-> <<>>, risk_factors |-> <<>>]

\* The default returned when fewer than 5 logs are in the window.
BurnoutDefault ==
    [risk_score |-> 0, risk_category |-> "low", workload_trend |-> 0, energy_decline |-> 0,
     sleep_deficit |-> 0, stress_score |-> 0, productivity_drop |-> 0,
     trend_direction |-> "stable", trend_change |-> 0,
     recommendations |-> <<>>, risk_factors |-> <<>>]

RiskCategory(risk_score) ==
    IF risk_score >= 750 THEN "critical"
    ELSE IF risk_score >= 500 THEN "high"
    ELSE IF risk_score >= 300 THEN "medium"
    ELSE "low"

\* _generate_burnout_recommendations: the templates selected (components in 1e-5 points).
BurnoutRecommendations(workload_trend, energy_decline, sleep_deficit, stress_score,
                       productivity_drop, risk_category) ==
    LET recs ==
          (IF risk_category \in {"critical", "high"} THEN <<"recovery_day">> ELSE <<>>)
          \o (IF workload_trend > 40 * FixOne THEN <<"prioritize_deep_work">> ELSE <<>>)
          \o (IF energy_decline > 30 * FixOne THEN <<"more_breaks">> ELSE <<>>)
          \o (IF sleep_deficit > 40 * FixOne THEN <<"sleep_7_8_hours">> ELSE <<>>)
          \o (IF stress_score > 60 * FixOne THEN <<"stress_reduction">> ELSE <<>>)
          \o (IF productivity_drop > 30 * FixOne THEN <<"protect_deep_work">> ELSE <<>>)
    IN  IF recs = <<>> THEN <<"metrics_look_healthy">> ELSE recs

RiskFactors(workload_trend, energy_decline, sleep_deficit, stress_score, productivity_drop) ==
    (IF workload_trend > 40 * FixOne THEN <<"High Workload">> ELSE <<>>)
    \o (IF energy_decline > 30 * FixOne THEN <<"Energy Declining">> ELSE <<>>)
    \o (IF sleep_deficit > 40 * FixOne THEN <<"Sleep Deficit">> ELSE <<>>)
    \o (IF stress_score > 60 * FixOne THEN <<"High Stress">> ELSE <<>>)
    \o (IF productivity_drop > 30 * FixOne THEN <<"Productivity Declining">> ELSE <<>>)

\* The trend against the previous stored score: prev is the set holding that row, or {}.
BurnoutTrend(risk_score, prev) ==
    IF prev = {} THEN [direction |-> "stable", change |-> 0]
    ELSE LET p == CHOOSE r \in prev : TRUE
             change == risk_score - p.risk_score
         IN  [direction |-> IF change > 50 THEN "worsening"
                            ELSE IF change < 0 - 50 THEN "improving" ELSE "stable",
              change |-> change]

\* The computation of calculate_burnout_risk on the queried logs (ordered by log_date)
\* and the previous score row.  Sums are of tenths; components are in 1e-5 points until
\* they are rounded into the result.
BurnoutOf(logs, prev) ==
    LET n   == Len(logs)
        mid == n \div 2
        first_half  == SubSeq(logs, 1, mid)
        second_half == SubSeq(logs, mid + 1, n)
        n1 == mid
        n2 == n - mid
        W1 == SumField(first_half, "work_hours")
        W2 == SumField(second_half, "work_hours")
        P1 == SumProd(first_half)
        P2 == SumProd(second_half)
        E1 == SumField(first_half, "energy_score")
        E2 == SumField(second_half, "energy_score")
        S2 == SumField(second_half, "sleep_hours")
        T2 == SumField(second_half, "stress_level")
        \* work_increase * 50 + max(0, first_prod_avg - second_prod_avg) * 0.5
        prod_with_work == Fix(50 * Max2(0, W2 * n1 - W1 * n2), n2 * Max2(W1, 10 * n1))
                          + Fix(Max2(0, P1 * n2 - P2 * n1), 20 * n1 * n2)
        workload_trend == Min2(prod_with_work, 100 * FixOne)
        energy_decline == Min2(Fix(10 * Max2(0, E1 * n2 - E2 * n1), n1 * n2), 100 * FixOne)
        sleep_deficit == Min2(Fix(10 * Max2(0, 75 * n2 - S2), 3 * n2), 100 * FixOne)
        stress_score == IF T2 >= 0 THEN Fix(10 * T2, n2) ELSE 0 - Fix(10 * (0 - T2), n2)
        productivity_drop ==
            IF P1 > 0 THEN Min2(Fix(100 * Max2(0, P1 * n2 - P2 * n1), P1 * n2), 100 * FixOne)
            ELSE 0
        risk == (25 * workload_trend + 25 * energy_decline + 15 * sleep_deficit
                 + 15 * stress_score + 20 * productivity_drop) \div 100
        risk_score == IF risk <= 0 THEN 0
                      ELSE IF risk >= 100 * FixOne THEN 1000
                      ELSE RoundHalfEven(risk, FixOne \div 10)
        risk_category == RiskCategory(risk_score)
        trend == BurnoutTrend(risk_score, prev)
        R1(x) == IF x >= 0 THEN RoundHalfEven(x, FixOne \div 10)
                 ELSE 0 - RoundHalfEven(0 - x, FixOne \div 10)
    IN  IF n < BurnoutMinLogs THEN BurnoutDefault
        ELSE [risk_score |-> risk_score,
              risk_category |-> risk_category,
              workload_trend |-> R1(workload_trend),
              energy_decline |-> R1(energy_decline),
              sleep_deficit |-> R1(sleep_deficit),
              stress_score |-> R1(stress_score),
              productivity_drop |-> R1(productivity_drop),
              trend_direction |-> trend.direction,
              trend_change |-> trend.change,
              recommendations |-> BurnoutRecommendations(workload_trend, energy_decline,
                                     sleep_deficit, stress_score, productivity_drop,
                                     risk_category),
              risk_factors |-> RiskFactors(workload_trend, energy_decline, sleep_deficit,
                                           stress_score, productivity_drop)]



----------------------------------------------------------------------------
(* Insight engine: services/insights.py.  logs is the window's rows in     *)
(* log_date order.  Means are compared by cross-multiplication, so no      *)
(* division is rounded.  An insight_data dict is modelled by its category, *)
(* title, insight_type and severity; message, impact_score and confidence  *)
(* are text and numbers derived from the same means and are never read     *)
(* back by the code.                                                       *)

InsightWindowDays == 30
InsightMinLogs == 7

\* Python slices logs[-k:] and logs[:k].
LastK(xs, k) == SubSeq(xs, Max2(1, Len(xs) - k + 1), Len(xs))
FirstK(xs, k) == SubSeq(xs, 1, Min2(k, Len(xs)))

GoodSleep(l) == l.sleep_hours >= 70
PoorSleep(l) == l.sleep_hours < 60

_analyze_sleep_productivity(logs) ==
    LET good == SelectSeq(logs, GoodSleep)
        poor == SelectSeq(logs, PoorSleep)
        ng == Len(good)
        np == Len(poor)
        GP == SumProd(good)
        PP == SumProd(poor)
    IN  IF ng < 3 \/ np < 2 THEN <<>>
        ELSE IF 10 * (GP * np - PP * ng) > Max2(PP * ng, 10 * ng * np)
             THEN << [category |-> "sleep", title |-> "Sleep boosts your productivity",
                      insight_type |-> "observation", severity |-> "info"] >>
             ELSE <<>>

DidExercise(l) == l.exercise_minutes >= 20
NoExercise(l) == l.exercise_minutes = 0

_analyze_exercise_impact(logs) ==
    LET ex == SelectSeq(logs, DidExercise)
        no == SelectSeq(logs, NoExercise)
        ne == Len(ex)
        nn == Len(no)
    IN  IF ne < 3 \/ nn < 3 THEN <<>>
        ELSE IF SumProd(ex) * nn - SumProd(no) * ne > 50 * ne * nn
             THEN << [category |-> "productivity", title |-> "Exercise improves your output",
                      insight_type |-> "recommendation", severity |-> "success"] >>
             ELSE <<>>

day_names == <<"Monday", "Tuesday", "Wednesday", "Thursday", "Friday", "Saturday", "Sunday">>

\* date.weekday(): 0 is Monday.
Weekday(d) == d % 7

HasProductivity(l) == l.productivity_score # NoValue

\* Keys of day_scores in insertion order: weekdays by first appearance.
RECURSIVE DayKeys(_, _)
DayKeys(logs, acc) ==
    IF logs = <<>> THEN acc
    ELSE LET w == Weekday(Head(logs).log_date)
         IN  DayKeys(Tail(logs),
                     IF \E i \in 1..Len(acc) : acc[i] = w THEN acc ELSE Append(acc, w))

_analyze_best_day(logs) ==
    LET scored == SelectSeq(logs, HasProductivity)
        keys == DayKeys(scored, <<>>)
        OnDay(w) == SelectSeq(scored, LAMBDA l : Weekday(l.log_date) = w)
        Cnt(w) == Len(OnDay(w))
        Tot(w) == SumSeq([i \in 1..Cnt(w) |-> OnDay(w)[i].productivity_score])
        avgd == SelectSeq(keys, LAMBDA w : Cnt(w) >= 2)
        Higher(a, b) == Tot(a) * Cnt(b) > Tot(b) * Cnt(a)
        \* max()/min() return the first extreme key in iteration order
        bi == CHOOSE i \in 1..Len(avgd) :
                  /\ \A j \in 1..Len(avgd) : ~Higher(avgd[j], avgd[i])
                  /\ \A j \in 1..(i - 1) : \E k \in 1..Len(avgd) : Higher(avgd[k], avgd[j])
        wi == CHOOSE i \in 1..Len(avgd) :
                  /\ \A j \in 1..Len(avgd) : ~Higher(avgd[i], avgd[j])
                  /\ \A j \in 1..(i - 1) : \E k \in 1..Len(avgd) : Higher(avgd[j], avgd[k])
    IN  IF Len(keys) < 3 \/ avgd = <<>> THEN <<>>
        ELSE LET b == avgd[bi]
                 w == avgd[wi]
             IN  IF Tot(b) * Cnt(w) - Tot(w) * Cnt(b) > 80 * Cnt(b) * Cnt(w)
                 THEN << [category |-> "productivity",
                          title |-> day_names[b + 1] \o " is your peak day",
                          insight_type |-> "observation", severity |-> "info"] >>
                 ELSE <<>>

_analyze_energy_patterns(logs) ==
    LET recent == LastK(logs, 7)
        n == Len(recent)
        h == n \div 2
        first_half == SubSeq(recent, 1, h)
        second_half == SubSeq(recent, h + 1, n)
        S1 == SumField(first_half, "energy_score")
        S2 == SumField(second_half, "energy_score")
    IN  IF n < 5 THEN <<>>
        ELSE IF S2 * h < S1 * (n - h) - h * (n - h)
             THEN << [category |-> "energy", title |-> "Energy levels declining",
                      insight_type |-> "alert", severity |-> "warning"] >>
             ELSE <<>>

HighStress(l) == l.stress_level >= 7
LowStress(l) == l.stress_level <= 4

_analyze_stress_impact(logs) ==
    LET high == SelectSeq(logs, HighStress)
        low == SelectSeq(logs, LowStress)
        nh == Len(high)
        nl == Len(low)
    IN  IF nh < 3 \/ nl < 3 THEN <<>>
        ELSE IF SumProd(low) * nh > SumProd(high) * nl + 80 * nl * nh
             THEN << [category |-> "productivity", title |-> "Stress is hurting your output",
                      insight_type |-> "recommendation", severity |-> "warning"] >>
             ELSE <<>>

_analyze_productivity_trend(logs) ==
    LET recent_7 == LastK(logs, 7)
        previous_7 == FirstK(LastK(logs, 14), 7)
        change7 == SumProd(recent_7) - SumProd(previous_7)   \* 7 * change, in tenths
    IN  IF Len(logs) < 14 THEN <<>>
        ELSE IF change7 > 7 * 50
             THEN << [category |-> "productivity", title |-> "Productivity improving",
                      insight_type |-> "achievement", severity |-> "success"] >>
        ELSE IF change7 < 0 - 7 * 80
             THEN << [category |-> "productivity", title |-> "Productivity dip detected",
                      insight_type |-> "alert", severity |-> "warning"] >>
        ELSE <<>>

HighDeepWork(l) == l.deep_work_hours >= 30
LowDeepWork(l) == l.deep_work_hours < 15

_analyze_deep_work(logs) ==
    LET high == SelectSeq(logs, HighDeepWork)
        low == SelectSeq(logs, LowDeepWork)
        nh == Len(high)
        nl == Len(low)
    IN  IF nh < 3 \/ nl < 3 THEN <<>>
        ELSE IF SumProd(high) * nl > SumProd(low) * nh + 100 * nl * nh
             THEN << [category |-> "productivity", title |-> "Deep work drives results",
                      insight_type |-> "observation", severity |-> "info"] >>
             ELSE <<>>

\* stdev(a) < 0.7 * stdev(b) for two samples of 7: 100 * SSn(a) < 49 * SSn(b),
\* compared by quotient and remainder to stay inside the integer range.
_analyze_consistency(logs) ==
    LET last14 == LastK(logs, 14)
        scores == [i \in 1..Len(last14) |-> ProdOr50(last14[i])]
        a == SSn(LastK(scores, 7))
        b == SSn(FirstK(scores, 7))
        qa == a \div 49
        qb == b \div 100
    IN  IF Len(logs) < 14 THEN <<>>
        ELSE IF b > 0 /\ (qa < qb \/ (qa = qb /\ 100 * (a % 49) < 49 * (b % 100)))
             THEN << [category |-> "productivity", title |-> "Your consistency is improving",
                      insight_type |-> "achievement", severity |-> "success"] >>
             ELSE <<>>

\* The insights list of generate_insights before it is saved.
InsightsOf(logs) ==
    IF Len(logs) < InsightMinLogs THEN <<>>
    ELSE _analyze_sleep_productivity(logs) \o _analyze_exercise_impact(logs)
         \o _analyze_best_day(logs) \o _analyze_energy_patterns(logs)
         \o _analyze_stress_impact(logs) \o _analyze_productivity_trend(logs)
         \o _analyze_deep_work(logs) \o _analyze_consistency(logs)

----------------------------------------------------------------------------
(* The database and the per-request session that get_db hands to a handler *)
(* (database.py).  A session's flushed INSERTs and UPDATEs are held in its *)
(* tx until get_db commits or rolls back; a query of the session sees the  *)
(* committed rows with its own flushed rows in their place (read           *)
(* committed).  A row flushed by one session is locked against the UPDATE  *)
(* of another until the first ends.                                        *)

Sessions == {"s1", "s2"}

TableNames == {"users", "daily_logs", "streaks", "burnout_scores", "insights",
               "events", "habits", "habit_logs", "goals"}

Committed ==
    [users |-> users, daily_logs |-> daily_logs, streaks |-> streaks,
     burnout_scores |-> burnout_scores, insights |-> insights, events |-> events,
     habits |-> habits, habit_logs |-> habit_logs, goals |-> goals]

EmptyTx == [t \in TableNames |-> {}]

\* Rows of table t as a query of session s finds them.
View(s, t) ==
    {r \in Committed[t] : \A w \in sess[s].tx[t] : w.id # r.id} \cup sess[s].tx[t]

\* Another session holds an uncommitted write of row id of table t.
RowLocked(s, t, id) ==
    \E o \in Sessions \ {s} : \E w \in sess[o].tx[t] : w.id = id

\* flush of one row: INSERT, or UPDATE in place of the row's earlier version.
Stage(tx, t, row) == [tx EXCEPT ![t] = {w \in @ : w.id # row.id} \cup {row}]

\* The ORM's UPDATE sets the columns whose attribute changed since the row was
\* loaded, on the row as the database holds it when the statement runs.
ChangedAttrs(old, new) == {f \in DOMAIN new : old[f] # new[f]}
\* An UPDATE that is never sent (the changed object is not flushed).
update_not_flushed(cur, new, attrs) == cur

ApplyUpdate(cur, new, attrs) == [f \in DOMAIN cur |-> IF f \in attrs THEN new[f] ELSE cur[f]]
RowById(s, t, id) == CHOOSE r \in View(s, t) : r.id = id

\* A daily_logs table declared without the constraint: no two rows clash.
no_unique_constraint(r, q) == FALSE

\* UniqueConstraint("user_id", "log_date", name="uq_user_date")
uq_user_date(r, q) == r.user_id = q.user_id /\ r.log_date = q.log_date

\* INSERT of row into daily_logs meets a committed row with its key.
UniqueViolation(row) == \E r \in daily_logs : uq_user_date(r, row)

\* INSERT of row meets another session's uncommitted INSERT of its key: the
\* statement waits for that session to end.
UniqueWait(s, row) ==
    \E o \in Sessions \ {s} : \E w \in sess[o].tx.daily_logs :
        /\ \A r \in daily_logs : r.id # w.id
        /\ uq_user_date(w, row)

\* session.commit() and session.rollback() of get_db: the committed tables after.
AfterCommit(s) == [t \in TableNames |-> View(s, t)]
\* A get_db that commits in its except branch too.
commit_on_error(s) == [t \in TableNames |-> View(s, t)]

AfterRollback(s) == Committed

SetTables(new) ==
    /\ users' = new.users
    /\ daily_logs' = new.daily_logs
    /\ streaks' = new.streaks
    /\ burnout_scores' = new.burnout_scores
    /\ insights' = new.insights
    /\ events' = new.events
    /\ habits' = new.habits
    /\ habit_logs' = new.habit_logs
    /\ goals' = new.goals

tables == <<users, daily_logs, streaks, burnout_scores, insights, events,
            habits, habit_logs, goals>>

\* A handler registered ahead of HTTPException's: every exception is a 500.
handle_all_as_500(exc) == 500

\* Status of the response to an exception: HTTPException carries its own,
\* every other exception reaches global_exception_handler.
global_exception_handler(exc) ==
    IF exc.type = "HTTPException" THEN exc.status_code ELSE 500

HTTPException(code) == [type |-> "HTTPException", status_code |-> code]
Exception(name) == [type |-> name, status_code |-> 500]
NoException == [type |-> "none", status_code |-> 0]

NoRow == [id |-> <<0, "none">>]
NoLocals == [log |-> NoRow, seen |-> {}, was |-> NoRow, obj |-> NoRow]

IdleSession ==
    [op |-> "idle", pc |-> "done", rid |-> 0, user |-> "none", req |-> <<>>,
     status |-> 0, exc |-> NoException, tx |-> EmptyTx, loc |-> NoLocals]

InFlight(s) == sess[s].pc # "done"
At(s, op, pc) == sess[s].op = op /\ sess[s].pc = pc

\* A request arrives on a free session.
Accept(s, op, pc, user, req) ==
    /\ ~InFlight(s)
    /\ requests' = requests + 1
    /\ sess' = [sess EXCEPT ![s] = [op |-> op, pc |-> pc, rid |-> requests + 1,
                                    user |-> user, req |-> req, status |-> 0,
                                    exc |-> NoException, tx |-> EmptyTx,
                                    loc |-> NoLocals]]
    /\ UNCHANGED <<now, tables, cell>>

\* The handler raises: get_db rolls back and the exception becomes the response.
Raise(s, exc) ==
    /\ SetTables(AfterRollback(s))
    /\ sess' = [sess EXCEPT ![s].pc = "done", ![s].tx = EmptyTx, ![s].exc = exc,
                            ![s].loc = NoLocals,
                            ![s].status = global_exception_handler(exc)]
    /\ UNCHANGED <<now, requests, cell>>

\* The handler moves on inside its transaction.
Goto(s, pc, tx, loc) ==
    /\ sess' = [sess EXCEPT ![s].pc = pc, ![s].tx = tx, ![s].loc = loc]
    /\ UNCHANGED <<now, tables, requests, cell>>

\* Status of a handler's normal response (status_code of its route decorator).
status_code(op) ==
    IF op \in {"create_checkin", "create_habit", "log_habit", "create_goal"} THEN 201 ELSE 200

\* The handler has returned: get_db commits and the response goes out.
Commit(s) ==
    /\ sess[s].pc = "commit"
    /\ SetTables(AfterCommit(s))
    /\ sess' = [sess EXCEPT ![s].pc = "done", ![s].tx = EmptyTx,
                            ![s].loc = NoLocals,
                            ![s].status = status_code(sess[s].op)]
    /\ UNCHANGED <<now, requests, cell>>

\* The database fails a statement of a request in flight (connection lost,
\* "database is locked", statement timeout): OperationalError.
DbFail(s) ==
    /\ InFlight(s)
    /\ Raise(s, Exception("OperationalError"))

----------------------------------------------------------------------------
(* Check-ins: routes/checkins.py.                                          *)

\* Request bodies the clients send (DailyLogCreate without log_date): a good
\* day and a bad day.
Profiles ==
    { [work_hours |-> 80, deep_work_hours |-> 40, tasks_completed |-> 5,
       tasks_planned |-> 5, interruptions |-> 2, focus_score |-> 8,
       energy_score |-> 9, stress_level |-> 4, sleep_hours |-> 75,
       exercise_minutes |-> 30],
      [work_hours |-> 100, deep_work_hours |-> 20, tasks_completed |-> 3,
       tasks_planned |-> 5, interruptions |-> 10, focus_score |-> 3,
       energy_score |-> 3, stress_level |-> 8, sleep_hours |-> 50,
       exercise_minutes |-> 10] }

\* DailyLog(user_id=user.id, **data.model_dump()) with the two scores of
\* lines 43-44.  mood, social_interaction, notes, highlights and
\* completed_at are stored and returned but never read by a handler.
NewDailyLog(id, user_id, data) ==
    LET log == data @@ [id |-> id, user_id |-> user_id]
    IN  log @@ [productivity_score |-> calculate_productivity_score(log),
                energy_index |-> calculate_energy_index(log),
                consistency_score |-> NoValue]

\* The identity map of the session: a row loaded before keeps the attribute
\* values it was loaded with (or given since) when a later query returns it.
Loaded(seen, rows) ==
    {IF \E c \in seen : c.id = r.id THEN CHOOSE c \in seen : c.id = r.id ELSE r : r \in rows}
Remember(seen, rows) == seen \cup {r \in rows : \A c \in seen : c.id # r.id}
Replace(seen, row) == {c \in seen : c.id # row.id} \cup {row}

\* ORDER BY log_date.
RECURSIVE SortByDate(_)
SortByDate(S) ==
    IF S = {} THEN <<>>
    ELSE LET m == CHOOSE r \in S : \A q \in S :
                      \/ r.log_date < q.log_date
                      \/ (r.log_date = q.log_date /\ r.id[1] <= q.id[1])
         IN  <<m>> \o SortByDate(S \ {m})

\* select(DailyLog) of a user between two dates, as the three engines run it.
LogRows(s, user_id, start_date, target_date) ==
    {r \in View(s, "daily_logs") :
        r.user_id = user_id /\ r.log_date >= start_date /\ r.log_date <= target_date}

LogsBetween(s, seen, user_id, start_date, target_date) ==
    SortByDate(Loaded(seen, LogRows(s, user_id, start_date, target_date)))

\* A consistency query without its date filters: every log of the user.
consistency_over_all_logs(s, seen, user_id, target_date) ==
    ConsistencyOf(LogsBetween(s, seen, user_id, target_date - 1000, target_date + 1000))

calculate_consistency_score(s, seen, user_id, target_date) ==
    ConsistencyOf(LogsBetween(s, seen, user_id, target_date - ConsistencyWindow, target_date))

\* A streak that counts every check-in as the next day of the run.
count_every_checkin(streak, id, user_id, log_date) ==
    IF streak = NoRow
    THEN [id |-> id, user_id |-> user_id, streak_type |-> "checkin",
          current_count |-> 1, longest_count |-> 1, start_date |-> log_date,
          last_date |-> log_date, is_active |-> TRUE]
    ELSE [streak EXCEPT !.current_count = @ + 1, !.last_date = log_date,
                        !.longest_count = IF streak.current_count + 1 > @
                                          THEN streak.current_count + 1 ELSE @]

\* _update_checkin_streak on the result of its select: the Streak object after.
_update_checkin_streak(streak, id, user_id, log_date) ==
    IF streak = NoRow
    THEN [id |-> id, user_id |-> user_id, streak_type |-> "checkin",
          current_count |-> 1, longest_count |-> 1, start_date |-> log_date,
          last_date |-> log_date, is_active |-> TRUE]
    ELSE LET days_diff == log_date - streak.last_date
             counted ==
                 IF streak.last_date = NoValue THEN streak
                 ELSE IF days_diff = 1 THEN [streak EXCEPT !.current_count = @ + 1]
                 ELSE IF days_diff > 1
                      THEN [streak EXCEPT !.current_count = 1, !.start_date = log_date]
                 ELSE streak
             dated == [counted EXCEPT !.last_date = log_date]
         IN  IF dated.current_count > dated.longest_count
             THEN [dated EXCEPT !.longest_count = dated.current_count]
             ELSE dated

\* POST /checkins/ with body p and log_date d
StartCreateCheckin(s, u, d, p) ==
    Accept(s, "create_checkin", "lookup", u, p @@ [log_date |-> d])

\* lines 31-38
CreateLookup(s) ==
    /\ At(s, "create_checkin", "lookup")
    /\ LET existing == LogRows(s, sess[s].user, sess[s].req.log_date, sess[s].req.log_date)
       IN  IF Cardinality(existing) > 1 THEN Raise(s, Exception("MultipleResultsFound"))
           ELSE IF existing # {} THEN Raise(s, HTTPException(400))
           ELSE Goto(s, "insert", sess[s].tx, sess[s].loc)

\* lines 40-47
CreateInsert(s) ==
    /\ At(s, "create_checkin", "insert")
    /\ LET log == NewDailyLog(<<sess[s].rid, "log">>, sess[s].user, sess[s].req)
       IN  /\ ~UniqueWait(s, log)
           /\ IF UniqueViolation(log) THEN Raise(s, Exception("IntegrityError"))
              ELSE Goto(s, "consistency", Stage(sess[s].tx, "daily_logs", log),
                        [sess[s].loc EXCEPT !.log = log, !.seen = Replace(@, log)])

\* lines 49-51
CreateConsistency(s) ==
    /\ At(s, "create_checkin", "consistency")
    /\ LET loc == sess[s].loc
           d == sess[s].req.log_date
           rows == LogRows(s, sess[s].user, d - ConsistencyWindow, d)
           log == [loc.log EXCEPT !.consistency_score =
                       calculate_consistency_score(s, loc.seen, sess[s].user, d)]
       IN  Goto(s, "streak", Stage(sess[s].tx, "daily_logs", log),
                [loc EXCEPT !.log = log, !.seen = Replace(Remember(@, rows), log)])

\* lines 53-54, 208-238
CreateStreak(s) ==
    /\ At(s, "create_checkin", "streak")
    /\ LET found == {r \in View(s, "streaks") :
                        r.user_id = sess[s].user /\ r.streak_type = "checkin"}
           streak == IF found = {} THEN NoRow ELSE CHOOSE r \in found : TRUE
       IN  IF Cardinality(found) > 1 THEN Raise(s, Exception("MultipleResultsFound"))
           ELSE Goto(s, "streak_flush", sess[s].tx,
                     [sess[s].loc EXCEPT
                         !.was = streak,
                         !.obj = _update_checkin_streak(streak, <<sess[s].rid, "streak">>,
                                                        sess[s].user, sess[s].req.log_date)])

\* line 240
CreateStreakFlush(s) ==
    /\ At(s, "create_checkin", "streak_flush")
    /\ LET loc == sess[s].loc
           attrs == ChangedAttrs(loc.was, loc.obj)
       IN  IF loc.was = NoRow
           THEN Goto(s, "touch", Stage(sess[s].tx, "streaks", loc.obj), loc)
           ELSE IF attrs = {} THEN Goto(s, "touch", sess[s].tx, loc)
           ELSE /\ ~RowLocked(s, "streaks", loc.obj.id)
                /\ Goto(s, "touch",
                        Stage(sess[s].tx, "streaks",
                              ApplyUpdate(RowById(s, "streaks", loc.obj.id), loc.obj, attrs)),
                        loc)

\* lines 56-58
CreateTouch(s) ==
    /\ At(s, "create_checkin", "touch")
    /\ ~RowLocked(s, "users", sess[s].user)
    /\ Goto(s, "burnout",
            Stage(sess[s].tx, "users",
                  [RowById(s, "users", sess[s].user) EXCEPT !.last_checkin = now]),
            sess[s].loc)

\* A "previous score" query ordered by score_date ascending: the oldest row
\* before target_date.
prev_score_oldest(s, user_id, target_date) ==
    LET before == {b \in View(s, "burnout_scores") :
                      b.user_id = user_id /\ b.score_date < target_date}
        oldest == {b \in before : \A c \in before : c.score_date >= b.score_date}
    IN  IF oldest = {} THEN {{}} ELSE {{b} : b \in oldest}

\* The row the burnout engine's "previous score" query returns: the latest
\* score_date before target_date, LIMIT 1 (any one of them when several rows
\* share that date).
PrevScores(s, user_id, target_date) ==
    LET before == {b \in View(s, "burnout_scores") :
                      b.user_id = user_id /\ b.score_date < target_date}
        latest == {b \in before : \A c \in before : c.score_date <= b.score_date}
    IN  IF latest = {} THEN {{}} ELSE {{b} : b \in latest}

calculate_burnout_risk(s, seen, user_id, target_date, prev) ==
    BurnoutOf(LogsBetween(s, seen, user_id, target_date - BurnoutWindow, target_date), prev)

\* lines 60-76
CreateBurnout(s) ==
    /\ At(s, "create_checkin", "burnout")
    /\ \E prev \in PrevScores(s, sess[s].user, sess[s].req.log_date) :
        LET loc == sess[s].loc
            d == sess[s].req.log_date
            rows == LogRows(s, sess[s].user, d - BurnoutWindow, d)
            burnout_data == calculate_burnout_risk(s, loc.seen, sess[s].user, d, prev)
            burnout_score ==
                [id |-> <<sess[s].rid, "burnout">>, user_id |-> sess[s].user,
                 score_date |-> d,
                 risk_score |-> burnout_data.risk_score,
                 risk_category |-> burnout_data.risk_category,
                 workload_trend |-> burnout_data.workload_trend,
                 energy_decline |-> burnout_data.energy_decline,
                 sleep_deficit |-> burnout_data.sleep_deficit,
                 stress_score |-> burnout_data.stress_score,
                 productivity_drop |-> burnout_data.productivity_drop,
                 trend_direction |-> burnout_data.trend_direction,
                 trend_change |-> burnout_data.trend_change,
                 recommendations |-> burnout_data.recommendations]
        IN  Goto(s, "insights", Stage(sess[s].tx, "burnout_scores", burnout_score),
                 [loc EXCEPT !.seen = Remember(@, rows)])

\* Rows the duplicate check of generate_insights finds for one title.
ExistingInsights(s, user_id, title, start_date) ==
    {i \in View(s, "insights") :
        i.user_id = user_id /\ i.title = title /\ i.created_at >= start_date}

\* lines 78-79: generate_insights(db, user.id, data.log_date)
CreateInsights(s) ==
    /\ At(s, "create_checkin", "insights")
    /\ LET loc == sess[s].loc
           d == sess[s].req.log_date
           start_date == d - InsightWindowDays
           rows == LogRows(s, sess[s].user, start_date, d)
           found == InsightsOf(LogsBetween(s, loc.seen, sess[s].user, start_date, d))
           Existing(k) == ExistingInsights(s, sess[s].user, found[k].title, start_date)
           added == {found[k] @@ [id |-> <<sess[s].rid, found[k].title>>,
                                  user_id |-> sess[s].user, created_at |-> now,
                                  is_read |-> FALSE, is_dismissed |-> FALSE]
                        : k \in {j \in 1..Len(found) : Existing(j) = {}}}
       IN  IF \E k \in 1..Len(found) : Cardinality(Existing(k)) > 1
           THEN Raise(s, Exception("MultipleResultsFound"))
           ELSE Goto(s, "event",
                     [sess[s].tx EXCEPT !.insights = @ \cup added],
                     [loc EXCEPT !.seen = Remember(@, rows)])

\* lines 81-93
CreateEvent(s) ==
    /\ At(s, "create_checkin", "event")
    /\ Goto(s, "commit",
            Stage(sess[s].tx, "events",
                  [id |-> <<sess[s].rid, "event">>, user_id |-> sess[s].user,
                   event_type |-> "checkin_completed", event_category |-> "checkin",
                   event_data |-> sess[s].req.log_date]),
            sess[s].loc)

\* Bodies of PUT /checkins/{log_date}: the fields the client sets
\* (model_dump(exclude_unset=True)).
Updates ==
    { [sleep_hours |-> 50],
      [work_hours |-> 120, stress_level |-> 9] }

StartUpdateCheckin(s, u, d, data) ==
    Accept(s, "update_checkin", "select", u, [log_date |-> d, data |-> data])

\* lines 183-198
UpdateSelect(s) ==
    /\ At(s, "update_checkin", "select")
    /\ LET found == LogRows(s, sess[s].user, sess[s].req.log_date, sess[s].req.log_date)
           log == CHOOSE r \in found : TRUE
           data == sess[s].req.data
           set == [f \in DOMAIN log |-> IF f \in DOMAIN data THEN data[f] ELSE log[f]]
           scored == [set EXCEPT !.productivity_score = calculate_productivity_score(set),
                                 !.energy_index = calculate_energy_index(set)]
       IN  IF Cardinality(found) > 1 THEN Raise(s, Exception("MultipleResultsFound"))
           ELSE IF found = {} THEN Raise(s, HTTPException(404))
           ELSE Goto(s, "apply", sess[s].tx,
                     [sess[s].loc EXCEPT !.was = log, !.obj = scored,
                                         !.seen = Replace(@, scored)])

\* An update_checkin that also recomputes consistency_score of the user's
\* logs whose window holds the edited date.
update_rescoring_window(s) ==
    /\ At(s, "update_checkin", "apply")
    /\ LET loc == sess[s].loc
           d == sess[s].req.log_date
           log == [loc.obj EXCEPT !.consistency_score =
                       calculate_consistency_score(s, loc.seen, sess[s].user, d)]
           seen == Replace(Remember(loc.seen, LogRows(s, sess[s].user,
                                                      d - ConsistencyWindow,
                                                      d + ConsistencyWindow)), log)
           later == {r \in LogRows(s, sess[s].user, d, d + ConsistencyWindow) : r.id # log.id}
           rescored == {[r EXCEPT !.consistency_score =
                            calculate_consistency_score(s, seen, sess[s].user, r.log_date)] :
                        r \in later}
       IN  Goto(s, "commit",
                [sess[s].tx EXCEPT !.daily_logs =
                    {w \in @ : \A r \in rescored \cup {log} : r.id # w.id}
                        \cup rescored \cup {log}],
                [loc EXCEPT !.obj = log, !.seen = seen])

\* lines 199-203: the consistency query flushes the changed attributes first
UpdateApply(s) ==
    /\ At(s, "update_checkin", "apply")
    /\ LET loc == sess[s].loc
           d == sess[s].req.log_date
           \* the query returns the session's own object for this row
           score == calculate_consistency_score(s, loc.seen, sess[s].user, d)
           log == [loc.obj EXCEPT !.consistency_score = score]
           attrs2 == ChangedAttrs(loc.was, log)
       IN  /\ attrs2 # {} => ~RowLocked(s, "daily_logs", log.id)
           /\ Goto(s, "commit",
                   IF attrs2 = {} THEN sess[s].tx
                   ELSE Stage(sess[s].tx, "daily_logs",
                              ApplyUpdate(RowById(s, "daily_logs", log.id), log, attrs2)),
                   [loc EXCEPT !.obj = log,
                               !.seen = Replace(Remember(@, LogRows(s, sess[s].user,
                                                    d - ConsistencyWindow, d)), log)])

----------------------------------------------------------------------------
(* Specification of the check-in routes under concurrent requests.         *)

MaxDay == 2
MaxRequests == 3
Days == 0..MaxDay

Init ==
    /\ now = 0
    /\ users = {[id |-> u, last_checkin |-> NoValue] : u \in UserIds}
    /\ daily_logs = {}
    /\ streaks = {}
    /\ burnout_scores = {}
    /\ insights = {}
    /\ events = {}
    /\ habits = {}
    /\ habit_logs = {}
    /\ goals = {}
    /\ requests = 0
    /\ sess = [s \in Sessions |-> IdleSession]
    /\ cell = <<>>

PostCheckin(s) ==
    /\ requests < MaxRequests
    /\ \E u \in UserIds, d \in Days, p \in Profiles : StartCreateCheckin(s, u, d, p)

PutCheckin(s) ==
    /\ requests < MaxRequests
    /\ \E u \in UserIds, d \in Days, data \in Updates : StartUpdateCheckin(s, u, d, data)

\* One step of a check-in request on session s.
CheckinStep(s) ==
    \/ CreateLookup(s)
    \/ CreateInsert(s)
    \/ CreateConsistency(s)
    \/ CreateStreak(s)
    \/ CreateStreakFlush(s)
    \/ CreateTouch(s)
    \/ CreateBurnout(s)
    \/ CreateInsights(s)
    \/ CreateEvent(s)
    \/ UpdateSelect(s)
    \/ UpdateApply(s)
    \/ Commit(s)

NextCheckin ==
    \E s \in Sessions :
        \/ PostCheckin(s)
        \/ PutCheckin(s)
        \/ CheckinStep(s)
        \/ DbFail(s)

SpecCheckin == Init /\ [][NextCheckin]_vars

\* The same routes with one request at a time, over a longer calendar.
MaxSeqDay == 3
MaxSeqRequests == 4

PostCheckinSeq ==
    /\ requests < MaxSeqRequests
    /\ \E u \in UserIds, d \in 0..MaxSeqDay, p \in Profiles :
          StartCreateCheckin("s1", u, d, p)

PutCheckinSeq ==
    /\ requests < MaxSeqRequests
    /\ \E u \in UserIds, d \in 0..MaxSeqDay, data \in Updates :
          StartUpdateCheckin("s1", u, d, data)

NextSequential ==
    \/ PostCheckinSeq
    \/ PutCheckinSeq
    \/ CheckinStep("s1")

SpecSequential == Init /\ [][NextSequential]_vars

----------------------------------------------------------------------------
(* Properties of the check-in routes.                                      *)

SameKey(r, q) == r.user_id = q.user_id /\ r.log_date = q.log_date

Ended(s, op) == sess[s].op = op /\ sess[s].pc = "done"

\* The row of another request holds the date of ended request s.
DateTaken(s) ==
    \E r \in daily_logs :
        /\ r.user_id = sess[s].user
        /\ r.log_date = sess[s].req.log_date
        /\ r.id[1] # sess[s].rid

\* C1: of two concurrent create_checkin requests for one user and date
\* exactly one row is stored, and the request that lost to the other's row
\* is answered "already exists" with status 400 or 409, never 500.
C1_LoserAnswered4xx ==
    /\ \A r, q \in daily_logs : SameKey(r, q) => r = q
    /\ \A s \in Sessions :
        (/\ Ended(s, "create_checkin")
         /\ sess[s].exc.type \notin {"none", "OperationalError", "MultipleResultsFound"}
         /\ DateTaken(s))
        => sess[s].status \in {400, 409}

\* C1: a create_checkin has lost the race for its date and was answered 500
\* by the global exception handler, the winner's row being committed.
C1_LoserAnswered500 ==
    \E s \in Sessions :
        /\ Ended(s, "create_checkin")
        /\ sess[s].exc.type = "IntegrityError"
        /\ sess[s].status = 500
        /\ DateTaken(s)

\* C2: at every moment, whatever the interleaving of create_checkin and
\* update_checkin requests, the committed daily_logs hold at most one row
\* for each (user_id, log_date).
C2_OneLogPerUserDate ==
    \A r, q \in daily_logs :
        (r.user_id = q.user_id /\ r.log_date = q.log_date) => r.id = q.id

\* C2: two create_checkin requests for the same date have ended, one stored
\* its row and the other met the constraint at its INSERT, and the row has
\* since been the target of an update_checkin in flight.
C2_RaceSettled ==
    \E s, t \in Sessions :
        /\ s # t
        /\ Ended(s, "create_checkin")
        /\ sess[s].exc.type = "IntegrityError"
        /\ sess[t].op = "update_checkin"
        /\ sess[t].req.log_date = sess[s].req.log_date
        /\ sess[t].pc = "commit"
        /\ Cardinality({r \in daily_logs : r.log_date = sess[s].req.log_date}) = 1

\* Rows of the five tables create_checkin writes that carry request rid's ids.
RowsOf(T, rid) == {r \in T : r.id[1] = rid}
WrittenBy(rid) ==
    RowsOf(daily_logs, rid) \cup RowsOf(streaks, rid) \cup RowsOf(burnout_scores, rid)
        \cup RowsOf(insights, rid) \cup RowsOf(events, rid)

checkin_tables == <<daily_logs, streaks, burnout_scores, insights, events>>

\* The check-in streak of the request's user shows the request's date.
StreakDated(s) ==
    \E k \in streaks : k.user_id = sess[s].user /\ k.last_date = sess[s].req.log_date

\* C3: create_checkin is all or nothing.  While a request is in flight, and
\* for good once it has failed at any step, the committed tables hold no
\* DailyLog, Streak, BurnoutScore, Insight or Event row of it, and the step
\* in which it fails changes none of these tables nor users.last_checkin;
\* the step in which it succeeds commits its DailyLog, BurnoutScore and
\* Event rows, the streak of its date and users.last_checkin together.
C3_CheckinAllOrNothing ==
    /\ [](\A s \in Sessions :
            (sess[s].op = "create_checkin" /\ sess[s].status # 201)
                => WrittenBy(sess[s].rid) = {})
    /\ [][\A s \in Sessions :
            (sess[s].op = "create_checkin" /\ InFlight(s) /\ sess'[s].pc = "done")
                => IF sess'[s].status = 201
                   THEN /\ RowsOf(daily_logs', sess[s].rid) # {}
                        /\ RowsOf(burnout_scores', sess[s].rid) # {}
                        /\ RowsOf(events', sess[s].rid) # {}
                        /\ StreakDated(s)'
                        /\ \E u \in users' : u.id = sess[s].user /\ u.last_checkin = now
                   ELSE UNCHANGED <<checkin_tables, users>>]_vars

\* C3: a create_checkin has failed in its streak step or in insight
\* generation, after its DailyLog row was flushed, and another has succeeded.
C3_FailedAfterInsert ==
    \E s, t \in Sessions :
        /\ Ended(s, "create_checkin")
        /\ sess[s].exc.type = "MultipleResultsFound"
        /\ Ended(t, "create_checkin")
        /\ sess[t].status = 201

\* The step of session s in which its duplicate check finds a committed row.
DuplicateFound(s) ==
    /\ At(s, "create_checkin", "lookup")
    /\ \E r \in daily_logs :
          r.user_id = sess[s].user /\ r.log_date = sess[s].req.log_date
    /\ sess'[s].pc # "lookup"
    /\ sess'[s].exc.type # "OperationalError"

\* C4: a create_checkin for a user and date whose DailyLog is already stored
\* is answered 400, and the DailyLog, Streak, BurnoutScore, Insight and Event
\* tables are left as they were (the database answering its query).
C4_DuplicateDateRejected ==
    [][\A s \in Sessions :
          DuplicateFound(s) => (sess'[s].status = 400 /\ UNCHANGED checkin_tables)]_vars

\* C4: a create_checkin for a date that already had a row was answered 400
\* and the row stored before it is still the only one of that date.
C4_DuplicateAnswered400 ==
    \E s \in Sessions :
        /\ Ended(s, "create_checkin")
        /\ sess[s].status = 400
        /\ DateTaken(s)
        /\ Cardinality({r \in daily_logs : r.log_date = sess[s].req.log_date}) = 1

----------------------------------------------------------------------------
(* Check-in streak.                                                        *)

LoggedDates(u) == {r.log_date : r \in {q \in daily_logs : q.user_id = u}}
LatestDate(u) == CHOOSE d \in LoggedDates(u) : \A e \in LoggedDates(u) : e <= d

\* Number of consecutive logged days ending at day d.
RECURSIVE RunEndingAt(_, _)
RunEndingAt(u, d) == IF d \notin LoggedDates(u) THEN 0 ELSE 1 + RunEndingAt(u, d - 1)

Quiet == \A s \in Sessions : ~InFlight(s)

\* C8: with one request at a time, after any sequence of check-ins in any
\* date order, the user's check-in streak has last_date equal to the latest
\* logged date and current_count equal to the number of consecutive logged
\* days ending at that date.
C8_StreakMatchesCalendar ==
    \A u \in UserIds :
        (Quiet /\ LoggedDates(u) # {}) =>
            \A k \in {r \in streaks : r.user_id = u /\ r.streak_type = "checkin"} :
                /\ k.last_date = LatestDate(u)
                /\ k.current_count = RunEndingAt(u, LatestDate(u))

\* C8: a date before the streak's last_date was back-filled, and the streak
\* now ends at the back-filled date although a later date is logged.
C8_BackfillMovedLastDate ==
    \E k \in streaks :
        /\ Quiet
        /\ LoggedDates(k.user_id) # {}
        /\ k.last_date < LatestDate(k.user_id)

\* Function-level specification of _update_checkin_streak: cell holds the
\* Streak the select returned (NoRow: none), the log_date, and the object
\* the function leaves (NoRow until it has run).
MaxStreakDay == 4
MaxStreakCount == 3

StreakArgs ==
    {NoRow} \cup
    { [id |-> <<1, "streak">>, user_id |-> "u1", streak_type |-> "checkin",
       current_count |-> c, longest_count |-> l, start_date |-> b,
       last_date |-> e, is_active |-> TRUE] :
         c \in 1..MaxStreakCount, l \in 1..MaxStreakCount,
         b \in 0..MaxStreakDay, e \in 0..MaxStreakDay }

InitStreak ==
    /\ now = 0
    /\ users = {[id |-> u, last_checkin |-> NoValue] : u \in UserIds}
    /\ daily_logs = {}
    /\ streaks = {}
    /\ burnout_scores = {}
    /\ insights = {}
    /\ events = {}
    /\ habits = {}
    /\ habit_logs = {}
    /\ goals = {}
    /\ requests = 0
    /\ sess = [s \in Sessions |-> IdleSession]
    /\ \E k \in StreakArgs, d \in 0..(MaxStreakDay + 1) :
          /\ k # NoRow => (k.current_count <= k.longest_count /\ k.start_date <= k.last_date)
          /\ cell = [streak |-> k, log_date |-> d, out |-> NoRow]

ApplyStreak ==
    /\ cell.out = NoRow
    /\ cell' = [cell EXCEPT !.out = _update_checkin_streak(cell.streak, <<2, "streak">>,
                                                             "u1", cell.log_date)]
    /\ UNCHANGED <<now, tables, requests, sess>>

SpecStreak == InitStreak /\ [][ApplyStreak]_vars

\* C7: _update_checkin_streak on an existing Streak with last_date set adds 1
\* to current_count when log_date is the day after last_date, sets
\* current_count to 1 and start_date to log_date when it is more than a day
\* after, and leaves current_count, longest_count and start_date as they
\* were when it is the same day; with no Streak, it creates one with
\* current_count = longest_count = 1.
C7_StreakCases ==
    cell.out # NoRow =>
        IF cell.streak = NoRow
        THEN cell.out.current_count = 1 /\ cell.out.longest_count = 1
        ELSE LET gap == cell.log_date - cell.streak.last_date
             IN  /\ gap = 1 => cell.out.current_count = cell.streak.current_count + 1
                 /\ gap > 1 => (cell.out.current_count = 1
                                /\ cell.out.start_date = cell.log_date)
                 /\ gap = 0 => /\ cell.out.current_count = cell.streak.current_count
                               /\ cell.out.longest_count = cell.streak.longest_count
                               /\ cell.out.start_date = cell.streak.start_date

\* C7: the function has run on a Streak at its longest count for the day
\* after its last_date.
C7_StreakExtended ==
    /\ cell.out # NoRow
    /\ cell.streak # NoRow
    /\ cell.log_date = cell.streak.last_date + 1
    /\ cell.streak.current_count = cell.streak.longest_count
    /\ cell.out.longest_count = cell.streak.longest_count + 1

----------------------------------------------------------------------------
(* Habits: routes/habits.py.  target_value and progress_value are whole    *)
(* units here; success_rate and health_score are in tenths of a point.     *)

\* Habit(user_id=user.id, **data.model_dump()) with the column defaults.
\* name, description, category, icon, color, frequency, custom_days,
\* target_unit, reminder_time, difficulty, is_active and is_archived are
\* stored and returned but never read by log_habit.
NewHabit(id, user_id, data) ==
    [id |-> id, user_id |-> user_id, target_type |-> data.target_type,
     target_value |-> data.target_value,
     target_days_per_week |-> data.target_days_per_week,
     success_rate |-> 0, health_score |-> 0, current_streak |-> 0,
     longest_streak |-> 0, total_completions |-> 0, created_at |-> now]

StartCreateHabit(s, u, data) == Accept(s, "create_habit", "create", u, data)

\* lines 65-78
CreateHabit(s) ==
    /\ At(s, "create_habit", "create")
    /\ Goto(s, "commit",
            Stage(Stage(sess[s].tx, "habits",
                        NewHabit(<<sess[s].rid, "habit">>, sess[s].user, sess[s].req)),
                  "events",
                  [id |-> <<sess[s].rid, "event">>, user_id |-> sess[s].user,
                   event_type |-> "habit_created", event_category |-> "habit",
                   event_data |-> sess[s].req.target_type]),
            sess[s].loc)

\* lines 141-147: the completed flag log_habit stores
CompletedFor(habit, data) ==
    IF habit.target_type = "binary" THEN data.completed
    ELSE IF habit.target_type \in {"quantity", "time"}
         THEN data.progress_value >= habit.target_value
    ELSE data.completed

\* ORDER BY log_date DESC of a set of habit logs, as the list of their dates.
RECURSIVE DatesDesc(_)
DatesDesc(S) ==
    IF S = {} THEN <<>>
    ELSE LET m == CHOOSE r \in S : \A q \in S : q.log_date <= r.log_date
         IN  <<m.log_date>> \o DatesDesc(S \ {m})

\* The streak loop of _update_habit_stats over dates[i..]: counts while each
\* date is at most two days before the one before it.
RECURSIVE StreakFrom(_, _)
StreakFrom(dates, i) ==
    IF i > Len(dates) THEN 0
    ELSE IF dates[i - 1] - dates[i] <= 2 THEN 1 + StreakFrom(dates, i + 1)
    ELSE 0

\* _update_habit_stats: the Habit object after, given the completed logs the
\* select returned.
_update_habit_stats(habit, completed_logs, today) ==
    LET recent == {l \in completed_logs : l.log_date >= today - 30}
        expected_days == Max2(Min2(habit.target_days_per_week * 4, 30), 1)
        success_rate ==
            RoundHalfEven(1000 * Min2(Cardinality(recent), expected_days), expected_days)
        dates == DatesDesc(completed_logs)
        streak == 1 + StreakFrom(dates, 2)
        days == today - habit.created_at
        counted == [habit EXCEPT !.total_completions = Cardinality(completed_logs),
                                 !.success_rate = success_rate,
                                 !.health_score = RoundHalfEven(success_rate * Min2(days, 90), 90)]
    IN  IF completed_logs = {} THEN counted
        ELSE [counted EXCEPT !.current_streak = streak,
                             !.longest_streak = Max2(habit.longest_streak, streak)]

StartLogHabit(s, u, data) == Accept(s, "log_habit", "habit", u, data)

\* lines 133-139
LogHabitSelect(s) ==
    /\ At(s, "log_habit", "habit")
    /\ LET found == {h \in View(s, "habits") :
                        h.id = sess[s].req.habit_id /\ h.user_id = sess[s].user}
       IN  IF found = {} THEN Raise(s, HTTPException(404))
           ELSE Goto(s, "existing", sess[s].tx,
                     [sess[s].loc EXCEPT !.was = CHOOSE h \in found : TRUE,
                                         !.obj = CHOOSE h \in found : TRUE])

\* lines 141-160, 164-173: the HabitLog object before its flush
LogHabitExisting(s) ==
    /\ At(s, "log_habit", "existing")
    /\ LET data == sess[s].req
           completed == CompletedFor(sess[s].loc.was, data)
           existing == {l \in View(s, "habit_logs") :
                           l.habit_id = data.habit_id /\ l.log_date = data.log_date}
           existing_log == CHOOSE l \in existing : TRUE
           log == IF existing # {}
                  THEN [existing_log EXCEPT !.completed = completed,
                                            !.progress_value = data.progress_value,
                                            !.notes = data.notes,
                                            !.completed_at = now]
                  ELSE [id |-> <<sess[s].rid, "habit_log">>, user_id |-> sess[s].user,
                        habit_id |-> data.habit_id, log_date |-> data.log_date,
                        completed |-> completed, progress_value |-> data.progress_value,
                        notes |-> data.notes, completed_at |-> now]
       IN  IF Cardinality(existing) > 1 THEN Raise(s, Exception("MultipleResultsFound"))
           ELSE Goto(s, "flush_log", sess[s].tx,
                     [sess[s].loc EXCEPT !.seen = existing, !.log = log])

\* lines 161-163, 174-176: UPDATE of the existing row (completed_at is a new
\* timestamp every time) or INSERT of the new one
LogHabitFlush(s) ==
    /\ At(s, "log_habit", "flush_log")
    /\ LET loc == sess[s].loc
           was == CHOOSE l \in loc.seen : TRUE
       IN  IF loc.seen = {}
           THEN Goto(s, "stats", Stage(sess[s].tx, "habit_logs", loc.log), loc)
           ELSE /\ ~RowLocked(s, "habit_logs", loc.log.id)
                /\ Goto(s, "stats",
                        Stage(sess[s].tx, "habit_logs",
                              ApplyUpdate(RowById(s, "habit_logs", loc.log.id), loc.log,
                                          ChangedAttrs(was, loc.log) \cup {"completed_at"})),
                        loc)

\* lines 178-179, 212-248
LogHabitStats(s) ==
    /\ At(s, "log_habit", "stats")
    /\ LET habit == sess[s].loc.obj
           completed_logs == {l \in View(s, "habit_logs") :
                                 l.habit_id = habit.id /\ l.completed}
       IN  Goto(s, "flush_stats", sess[s].tx,
                [sess[s].loc EXCEPT !.obj = _update_habit_stats(habit, completed_logs, now)])

\* line 250
LogHabitStatsFlush(s) ==
    /\ At(s, "log_habit", "flush_stats")
    /\ LET loc == sess[s].loc
           attrs == ChangedAttrs(loc.was, loc.obj)
       IN  IF attrs = {} THEN Goto(s, "event", sess[s].tx, loc)
           ELSE /\ ~RowLocked(s, "habits", loc.obj.id)
                /\ Goto(s, "event",
                        Stage(sess[s].tx, "habits",
                              ApplyUpdate(RowById(s, "habits", loc.obj.id), loc.obj, attrs)),
                        loc)

\* lines 181-190
LogHabitEvent(s) ==
    /\ At(s, "log_habit", "event")
    /\ Goto(s, "commit",
            Stage(sess[s].tx, "events",
                  [id |-> <<sess[s].rid, "event">>, user_id |-> sess[s].user,
                   event_type |-> "habit_logged", event_category |-> "habit",
                   event_data |-> sess[s].loc.log.completed]),
            sess[s].loc)

----------------------------------------------------------------------------
(* Specification of the habit routes under concurrent requests.            *)

MaxHabitDay == 1
MaxHabitRequests == 3

\* Bodies of POST /habits/ (HabitCreate) and POST /habits/log (HabitLogCreate
\* without habit_id and log_date).
HabitBodies ==
    { [target_type |-> "binary", target_value |-> 1, target_days_per_week |-> 7],
      [target_type |-> "quantity", target_value |-> 8, target_days_per_week |-> 7] }

HabitLogBodies ==
    { [completed |-> TRUE, progress_value |-> 3, notes |-> "felt easy"],
      [completed |-> FALSE, progress_value |-> 8, notes |-> "None"] }

PostHabit(s) ==
    /\ requests < MaxHabitRequests
    /\ \E u \in UserIds, data \in HabitBodies : StartCreateHabit(s, u, data)

\* The client names a habit it was given, or an id that is none.
PostHabitLog(s) ==
    /\ requests < MaxHabitRequests
    /\ \E u \in UserIds, h \in {x.id : x \in habits} \cup {NoRow.id},
          d \in 0..MaxHabitDay, data \in HabitLogBodies :
          StartLogHabit(s, u, data @@ [habit_id |-> h, log_date |-> d])

HabitStep(s) ==
    \/ CreateHabit(s)
    \/ LogHabitSelect(s)
    \/ LogHabitExisting(s)
    \/ LogHabitFlush(s)
    \/ LogHabitStats(s)
    \/ LogHabitStatsFlush(s)
    \/ LogHabitEvent(s)
    \/ Commit(s)

NextHabit ==
    \E s \in Sessions :
        \/ PostHabit(s)
        \/ PostHabitLog(s)
        \/ HabitStep(s)
        \/ DbFail(s)

SpecHabit == Init /\ [][NextHabit]_vars

\* The same routes with one request at a time, while the days pass.
MaxHabitSeqRequests == 4
MaxNow == 1

\* The clock moves on to the next day.
Tick ==
    /\ now < MaxNow
    /\ now' = now + 1
    /\ UNCHANGED <<tables, requests, sess, cell>>

PostHabitSeq ==
    /\ requests < MaxHabitSeqRequests
    /\ \E u \in UserIds, data \in HabitBodies : StartCreateHabit("s1", u, data)

PostHabitLogSeq ==
    /\ requests < MaxHabitSeqRequests
    /\ \E u \in UserIds, h \in {x.id : x \in habits} \cup {NoRow.id},
          d \in 0..MaxHabitDay, data \in HabitLogBodies :
          StartLogHabit("s1", u, data @@ [habit_id |-> h, log_date |-> d])

NextHabitSeq ==
    \/ Tick
    \/ PostHabitSeq
    \/ PostHabitLogSeq
    \/ HabitStep("s1")

SpecHabitSeq == Init /\ [][NextHabitSeq]_vars

\* C5: at every moment, whatever the interleaving of log_habit requests,
\* the committed habit_logs hold at most one row for each (habit_id,
\* log_date).
C5_OneLogPerHabitDate ==
    \A l, m \in habit_logs :
        (l.habit_id = m.habit_id /\ l.log_date = m.log_date) => l.id = m.id

\* C5: two log_habit requests for one habit and date have both been
\* answered 201 and each has left a row of its own.
C5_BothInserted ==
    \E s, t \in Sessions :
        /\ s # t
        /\ Ended(s, "log_habit") /\ sess[s].status = 201
        /\ Ended(t, "log_habit") /\ sess[t].status = 201
        /\ sess[s].req.habit_id = sess[t].req.habit_id
        /\ sess[s].req.log_date = sess[t].req.log_date
        /\ \E l \in habit_logs : l.id = <<sess[s].rid, "habit_log">>
        /\ \E m \in habit_logs : m.id = <<sess[t].rid, "habit_log">>

\* The habit_logs rows of the habit and date of session s's request.
LogsOfRequest(s) ==
    {l \in habit_logs :
        l.habit_id = sess[s].req.habit_id /\ l.log_date = sess[s].req.log_date}

\* Session s has ended a log_habit that found the row of an earlier request.
Relogged(s) ==
    /\ Ended(s, "log_habit")
    /\ sess[s].status = 201
    /\ \E l \in LogsOfRequest(s) : l.id[1] # sess[s].rid

\* C6 as stated: a second, sequential log_habit for a habit and date that
\* has a HabitLog adds no row, and the one row then holds the completed,
\* progress_value and notes of the later request.
C6_UpsertStoresRequestValues ==
    \A s \in Sessions :
        Relogged(s) =>
            /\ Cardinality(LogsOfRequest(s)) = 1
            /\ \A l \in LogsOfRequest(s) :
                  /\ l.completed = sess[s].req.completed
                  /\ l.progress_value = sess[s].req.progress_value
                  /\ l.notes = sess[s].req.notes

\* C6, amended: a second, sequential log_habit for a habit and date that has
\* a HabitLog adds no row, and the one row then holds the progress_value and
\* notes of the later request and the completed flag log_habit derives from
\* it: the request's flag for a binary habit, progress_value >= target_value
\* for a quantity or time habit.
C6_UpsertOverwrites ==
    \A s \in Sessions :
        Relogged(s) =>
            /\ Cardinality(LogsOfRequest(s)) = 1
            /\ \A l \in LogsOfRequest(s) : \A h \in habits :
                  h.id = l.habit_id =>
                      /\ l.completed =
                            IF h.target_type = "binary" THEN sess[s].req.completed
                            ELSE sess[s].req.progress_value >= h.target_value
                      /\ l.progress_value = sess[s].req.progress_value
                      /\ l.notes = sess[s].req.notes

\* C6: a quantity habit was logged a second time for a date with a request
\* that changed the stored progress_value and notes.
C6_QuantityRelogged ==
    \E s \in Sessions :
        /\ Relogged(s)
        /\ \E l \in LogsOfRequest(s) : \E h \in habits :
              /\ h.id = l.habit_id
              /\ h.target_type = "quantity"
              /\ l.progress_value = 8
              /\ l.completed
              /\ l.notes = "None"

----------------------------------------------------------------------------
(* Goals: routes/goals.py.  target_value, current_value and the value of a *)
(* progress update are whole units; priority_weight, goal_score and        *)
(* success_probability are in tenths.                                      *)

\* round(num/den, 0) for either sign of num (Python rounds ties to even on
\* both sides of zero), den > 0.
RoundSigned(num, den) ==
    IF num >= 0 THEN RoundHalfEven(num, den) ELSE 0 - RoundHalfEven(0 - num, den)

\* _estimate_success_probability divides current_value, which is None on a
\* Goal that was constructed and not yet flushed (the column default is
\* applied by the INSERT): TypeError.
EstimateRaises(goal) ==
    /\ goal.status # "completed"
    /\ goal.target_value > 0
    /\ goal.current_value = NoValue

_estimate_success_probability(goal, today) ==
    LET c == goal.current_value
        t == goal.target_value
        days_remaining == goal.deadline - today
        total_days == goal.deadline - goal.start_date
        \* max(1 - time_ratio, 0.01) as the fraction dn/dd
        small == 100 * (total_days - days_remaining) < total_days
        dn == IF small THEN 1 ELSE total_days - days_remaining
        dd == IF small THEN 100 ELSE total_days
        \* pace * 70 + progress * 30 as the fraction pnum/pden
        pnum == 70 * c * dd + 30 * c * dn
        pden == t * dn
    IN  IF goal.status = "completed" THEN 1000
        ELSE IF t <= 0 THEN 500
        ELSE IF goal.deadline = NoValue THEN RoundSigned(800 * c, t)
        ELSE IF days_remaining <= 0 THEN RoundSigned(1000 * c, t)
        ELSE IF total_days <= 0 THEN 500
        ELSE IF pnum >= 99 * pden THEN 990
        ELSE IF pnum <= 5 * pden THEN 50
        ELSE RoundHalfEven(10 * pnum, pden)

_update_goal_score(goal, today) ==
    LET \* progress as the fraction pn/pd
        capped == goal.current_value >= goal.target_value
        pn == IF goal.target_value > 0
              THEN (IF capped THEN 1 ELSE goal.current_value) ELSE 0
        pd == IF goal.target_value > 0
              THEN (IF capped THEN 1 ELSE goal.target_value) ELSE 1
        total_days == goal.deadline - goal.start_date
        elapsed_days == today - goal.start_date
        paced == goal.deadline # NoValue /\ total_days > 0 /\ elapsed_days > 0
        \* consistency_factor as the fraction cn/cd
        over == 2 * pn * total_days >= 3 * pd * elapsed_days
        cn == IF ~paced THEN 1 ELSE IF over THEN 3 ELSE pn * total_days
        cd == IF ~paced THEN 1 ELSE IF over THEN 2 ELSE pd * elapsed_days
        scored == [goal EXCEPT !.goal_score =
                      RoundSigned(100 * goal.priority_weight * pn * cn, pd * cd)]
    IN  [scored EXCEPT !.success_probability = _estimate_success_probability(scored, today)]

\* A completion check that follows the progress both ways.
mark_by_progress(goal) ==
    IF goal.current_value >= goal.target_value
    THEN [goal EXCEPT !.status = "completed", !.completed_at = now]
    ELSE [goal EXCEPT !.status = "active"]

\* "Check if goal is completed": lines 96-99 and 131-133.
MarkCompleted(goal) ==
    IF goal.current_value >= goal.target_value /\ goal.status = "active"
    THEN [goal EXCEPT !.status = "completed", !.completed_at = now]
    ELSE goal

\* Goal(user_id=user.id, **data.model_dump()): the columns the request does
\* not give are None until the INSERT.
NewGoal(id, user_id, data) ==
    [id |-> id, user_id |-> user_id, target_value |-> data.target_value,
     current_value |-> NoValue, priority_weight |-> data.priority_weight,
     goal_score |-> 0, success_probability |-> NoValue,
     start_date |-> data.start_date, deadline |-> data.deadline,
     status |-> "None", completed_at |-> NoValue]

StartCreateGoal(s, u, data) == Accept(s, "create_goal", "create", u, data)

\* lines 48-64
CreateGoal(s) ==
    /\ At(s, "create_goal", "create")
    /\ LET goal == NewGoal(<<sess[s].rid, "goal">>, sess[s].user, sess[s].req)
       IN  IF EstimateRaises(goal) THEN Raise(s, Exception("TypeError"))
           ELSE Goto(s, "commit",
                     Stage(Stage(sess[s].tx, "goals",
                                 [goal EXCEPT !.success_probability =
                                                  _estimate_success_probability(goal, now),
                                              !.current_value = 0,
                                              !.status = "active"]),
                           "events",
                           [id |-> <<sess[s].rid, "event">>, user_id |-> sess[s].user,
                            event_type |-> "goal_created", event_category |-> "goal",
                            event_data |-> sess[s].req.target_value]),
                     sess[s].loc)

StartUpdateGoal(s, u, goal_id, data) ==
    Accept(s, "update_goal", "select", u, [goal_id |-> goal_id, data |-> data])

StartAddGoalProgress(s, u, goal_id, value) ==
    Accept(s, "add_goal_progress", "select", u, [goal_id |-> goal_id, value |-> value])

\* A goal query that names the id alone.
goal_by_id_only(s) == {g \in View(s, "goals") : g.id = sess[s].req.goal_id}

GoalOfRequest(s) ==
    {g \in View(s, "goals") : g.id = sess[s].req.goal_id /\ g.user_id = sess[s].user}

\* lines 80-102
UpdateGoalSelect(s) ==
    /\ At(s, "update_goal", "select")
    /\ LET goal == CHOOSE g \in GoalOfRequest(s) : TRUE
           data == sess[s].req.data
           set == [f \in DOMAIN goal |-> IF f \in DOMAIN data THEN data[f] ELSE goal[f]]
       IN  IF GoalOfRequest(s) = {} THEN Raise(s, HTTPException(404))
           ELSE Goto(s, "flush", sess[s].tx,
                     [sess[s].loc EXCEPT !.was = goal,
                                         !.obj = _update_goal_score(MarkCompleted(set), now)])

\* lines 119-144
AddGoalProgressSelect(s) ==
    /\ At(s, "add_goal_progress", "select")
    /\ LET goal == CHOOSE g \in GoalOfRequest(s) : TRUE
           added == [goal EXCEPT !.current_value = @ + sess[s].req.value]
           marked == MarkCompleted(added)
       IN  IF GoalOfRequest(s) = {} THEN Raise(s, HTTPException(404))
           ELSE Goto(s, "flush",
                     IF marked.status # added.status
                     THEN Stage(sess[s].tx, "events",
                                [id |-> <<sess[s].rid, "event">>, user_id |-> sess[s].user,
                                 event_type |-> "goal_completed", event_category |-> "goal",
                                 event_data |-> goal.id])
                     ELSE sess[s].tx,
                     [sess[s].loc EXCEPT !.was = goal,
                                         !.obj = _update_goal_score(marked, now)])

\* lines 103-104 and 145-146: UPDATE of the changed columns (updated_at is a
\* new timestamp every time)
GoalFlush(s) ==
    /\ sess[s].op \in {"update_goal", "add_goal_progress"}
    /\ sess[s].pc = "flush"
    /\ ~RowLocked(s, "goals", sess[s].loc.obj.id)
    /\ Goto(s, "commit",
            Stage(sess[s].tx, "goals",
                  ApplyUpdate(RowById(s, "goals", sess[s].loc.obj.id), sess[s].loc.obj,
                              ChangedAttrs(sess[s].loc.was, sess[s].loc.obj))),
            sess[s].loc)

\* Request bodies of the goal routes: GoalCreate, GoalUpdate (the fields the
\* client sets) and GoalProgressUpdate.
GoalBodies ==
    {[target_value |-> 10, priority_weight |-> 10, start_date |-> 0, deadline |-> dl] :
        dl \in {NoValue, 2}}
GoalUpdates == {[current_value |-> 12], [priority_weight |-> 15], [status |-> "active"]}
ProgressValues == {-3, 2}

MaxGoalRequests == 3
MaxGoalNow == 1

\* Goal rows the table holds when the server starts.
StoredGoals ==
    {_update_goal_score(
         [id |-> <<0, "goal">>, user_id |-> "u1", target_value |-> 10,
          current_value |-> c, priority_weight |-> 10, goal_score |-> 0,
          success_probability |-> NoValue, start_date |-> 0, deadline |-> dl,
          status |-> IF c >= 10 THEN "completed" ELSE "active",
          completed_at |-> IF c >= 10 THEN 0 ELSE NoValue], 0) :
        c \in {8, 10}, dl \in {NoValue, 2}}

InitGoal ==
    /\ now = 0
    /\ users = {[id |-> u, last_checkin |-> NoValue] : u \in UserIds}
    /\ daily_logs = {}
    /\ streaks = {}
    /\ burnout_scores = {}
    /\ insights = {}
    /\ events = {}
    /\ habits = {}
    /\ habit_logs = {}
    /\ goals \in {{g} : g \in StoredGoals}
    /\ requests = 0
    /\ sess = [s \in Sessions |-> IdleSession]
    /\ cell = <<>>

GoalTick ==
    /\ now < MaxGoalNow
    /\ now' = now + 1
    /\ UNCHANGED <<tables, requests, sess, cell>>

PostGoal(s) ==
    /\ requests < MaxGoalRequests
    /\ \E u \in UserIds, data \in GoalBodies : StartCreateGoal(s, u, data)

\* The client names a goal it was given, or an id that is none.
PutGoal(s) ==
    /\ requests < MaxGoalRequests
    /\ \E u \in UserIds, g \in {x.id : x \in goals} \cup {NoRow.id}, data \in GoalUpdates :
          StartUpdateGoal(s, u, g, data)

PostGoalProgress(s) ==
    /\ requests < MaxGoalRequests
    /\ \E u \in UserIds, g \in {x.id : x \in goals} \cup {NoRow.id}, v \in ProgressValues :
          StartAddGoalProgress(s, u, g, v)

GoalStep(s) ==
    \/ CreateGoal(s)
    \/ UpdateGoalSelect(s)
    \/ AddGoalProgressSelect(s)
    \/ GoalFlush(s)
    \/ Commit(s)

NextGoal ==
    \/ GoalTick
    \/ \E s \in Sessions :
        \/ PostGoal(s)
        \/ PutGoal(s)
        \/ PostGoalProgress(s)
        \/ GoalStep(s)
        \/ DbFail(s)

SpecGoal == InitGoal /\ [][NextGoal]_vars

\* The request of session s ends with this step by a commit.
Commits(s) == sess[s].pc = "commit" /\ sess'[s].pc = "done"

\* An update_goal whose body sets status.
SetsStatus(s) == sess[s].op = "update_goal" /\ "status" \in DOMAIN sess[s].req.data

\* C9: a goal whose stored status is 'completed' keeps that status across
\* every step of add_goal_progress (whatever the value, negative included)
\* and of an update_goal whose body does not set status; only a step that
\* commits an update_goal with a status field may change it.
C9_CompletedStays ==
    [][\A g \in goals : \A h \in goals' :
          (g.id = h.id /\ g.status = "completed" /\ h.status # "completed")
              => \E s \in Sessions : Commits(s) /\ SetsStatus(s)]_vars

\* C9: an add_goal_progress with a negative value has been committed on a
\* completed goal and left its current_value below the target.
C9_CompletedBelowTarget ==
    \E g \in goals :
        /\ g.status = "completed"
        /\ g.current_value < g.target_value
        /\ \E s \in Sessions :
              /\ sess[s].op = "add_goal_progress"
              /\ sess[s].pc = "done"
              /\ sess[s].status = 200
              /\ sess[s].req.value < 0

----------------------------------------------------------------------------
(* The engines behind create_checkin over a month of check-ins: one client *)
(* that sends its days in order, now and then one day late, with a good    *)
(* day on even dates and a bad day on odd dates.  The dates are ahead of   *)
(* the server's clock (DailyLogCreate.log_date takes any date).            *)

EngineFirstDay == 23
EngineLastDay == 31
MaxEngineRequests == 9

EngineProfile(d) ==
    CHOOSE p \in Profiles : (p.energy_score > 5) <=> (d % 2 = 0)

\* Days of the month the client has not logged yet.
Unlogged == {d \in EngineFirstDay..EngineLastDay : \A l \in daily_logs : l.log_date # d}

\* The earliest day not logged, or the one after it.
NextDays == {d \in Unlogged : Cardinality({e \in Unlogged : e < d}) <= 1}

PostCheckinEngines ==
    /\ requests < MaxEngineRequests
    /\ \E u \in UserIds, d \in NextDays : StartCreateCheckin("s1", u, d, EngineProfile(d))

CreateStep(s) ==
    \/ CreateLookup(s)
    \/ CreateInsert(s)
    \/ CreateConsistency(s)
    \/ CreateStreak(s)
    \/ CreateStreakFlush(s)
    \/ CreateTouch(s)
    \/ CreateBurnout(s)
    \/ CreateInsights(s)
    \/ CreateEvent(s)
    \/ Commit(s)

NextEngines ==
    \/ PostCheckinEngines
    \/ CreateStep("s1")

SpecEngines == Init /\ [][NextEngines]_vars

\* The request of session s is inside one of the three engines.
InEngine(s) ==
    /\ sess[s].op = "create_checkin"
    /\ sess[s].pc \in {"consistency", "burnout", "insights"}

\* C10: no step of calculate_consistency_score, calculate_burnout_risk or
\* generate_insights ends its request with an exception, whatever the rows
\* are that the engine reads.
C10_EnginesNeverRaise ==
    [][\A s \in Sessions : InEngine(s) => sess'[s].exc.type = "none"]_vars

\* C10: the insights table holds two rows of one user and title, and a
\* create_checkin has been answered 500 on MultipleResultsFound.
C10_DuplicateTitleRaised ==
    /\ \E i, j \in insights : i.id # j.id /\ i.user_id = j.user_id /\ i.title = j.title
    /\ \E s \in Sessions :
          /\ Ended(s, "create_checkin")
          /\ sess[s].status = 500
          /\ sess[s].exc.type = "MultipleResultsFound"

\* The log_date of the check-in whose generate_insights run stored insight
\* row i: the request's DailyLog is committed with it.
TargetDateOf(i) ==
    LET log == CHOOSE l \in daily_logs : l.id = <<i.id[1], "log">> IN log.log_date

\* C11: of two generate_insights runs for one user that produce the same
\* title, the later one stores no second row when its 30-day lookback
\* [target_date - 30, target_date] contains the earlier run's target date,
\* whatever the wall-clock day the first row was stamped with: the insights
\* table holds one row per title.
C11_OneRowPerTitleInLookback ==
    \A i, j \in insights :
        (/\ i.user_id = j.user_id
         /\ i.title = j.title
         /\ i.id[1] < j.id[1])
        => ~(/\ TargetDateOf(j) - InsightWindowDays <= TargetDateOf(i)
             /\ TargetDateOf(i) <= TargetDateOf(j))

\* C11: a title was stored a second time by the check-in for the day after
\* the one that stored it first, both stamped on the same wall-clock day,
\* and every request so far was answered 201.
C11_StoredAgainNextDay ==
    /\ \A s \in Sessions : sess[s].op = "idle" \/ (sess[s].pc = "done" /\ sess[s].status = 201)
    /\ \E i, j \in insights :
          /\ i.user_id = j.user_id
          /\ i.title = j.title
          /\ i.created_at = j.created_at
          /\ TargetDateOf(j) = TargetDateOf(i) + 1

\* The user's DailyLogs that were stored when the check-in that wrote
\* BurnoutScore b computed it (requests run one at a time), its own included.
LogsAtScore(b) ==
    {l \in daily_logs : l.user_id = b.user_id /\ l.id[1] <= b.id[1]}

\* Those of them inside the burnout window of the check-in's date.
WindowAtScore(b) ==
    {l \in LogsAtScore(b) :
        b.score_date - BurnoutWindow <= l.log_date /\ l.log_date <= b.score_date}

\* C12: a BurnoutScore computed from fewer than 5 DailyLogs in the window
\* [target_date - 14, target_date] has risk_score 0.0, category 'low',
\* trend 'stable' and trend_change 0.0; so the BurnoutScore of each of a
\* user's first four check-ins has risk_score 0.0 and category 'low'.
C12_BurnoutDefaultUnderFiveLogs ==
    \A b \in burnout_scores :
        /\ Cardinality(WindowAtScore(b)) < 5 =>
              /\ b.risk_score = 0
              /\ b.risk_category = "low"
              /\ b.trend_direction = "stable"
              /\ b.trend_change = 0
        /\ Cardinality(LogsAtScore(b)) <= 4 =>
              (b.risk_score = 0 /\ b.risk_category = "low")

\* C12: a fifth check-in back-filled a date whose window holds fewer than 5
\* logs and stored the default, and another check-in with 5 logs in its
\* window stored a risk above 0.
C12_DefaultAtFifthCheckin ==
    /\ \E b \in burnout_scores :
          /\ Cardinality(LogsAtScore(b)) = 5
          /\ Cardinality(WindowAtScore(b)) < 5
          /\ b.risk_score = 0
    /\ \E c \in burnout_scores :
          /\ Cardinality(WindowAtScore(c)) >= 5
          /\ c.risk_score > 0

\* The user's DailyLogs that were stored when the check-in of DailyLog l
\* computed its consistency score (requests run one at a time), l included.
LogsAtCheckin(l) ==
    {m \in daily_logs : m.user_id = l.user_id /\ m.id[1] <= l.id[1]}

\* C13: a check-in with fewer than 3 DailyLogs (its own included) in the
\* window ending at its date stores consistency_score 50.0; so a user's
\* first and second check-in store 50.0.
C13_ConsistencyDefaultUnderThreeLogs ==
    \A l \in daily_logs :
        /\ Cardinality({m \in LogsAtCheckin(l) :
                           l.log_date - 7 <= m.log_date /\ m.log_date <= l.log_date}) < 3
              => l.consistency_score = 500
        /\ Cardinality(LogsAtCheckin(l)) <= 2 => l.consistency_score = 500

\* C13: a third check-in back-filled a date with fewer than 3 logs in its
\* window and stored 50.0, and a check-in with 3 logs in its window stored
\* another score.
C13_DefaultAtThirdCheckin ==
    /\ \E l \in daily_logs :
          /\ Cardinality(LogsAtCheckin(l)) = 3
          /\ \A m \in LogsAtCheckin(l) : m.log_date >= l.log_date
          /\ l.consistency_score = 500
    /\ \E l \in daily_logs :
          /\ Cardinality({m \in LogsAtCheckin(l) : m.log_date <= l.log_date}) >= 3
          /\ l.consistency_score # 500

----------------------------------------------------------------------------
(* calculate_burnout_risk on a fortnight of logs: a first week of 6-hour    *)
(* days at productivity 70 and a second week of 9-hour days at             *)
(* productivity 50.  cell holds the rows the two queries return and the    *)
(* dict the function returns (NoRow until it has run).                     *)

FortnightDays == 14
EnergyLevels == {3, 6, 9}
SleepLevels == {50, 75}
StressLevels == {4, 8}

\* The window's rows in log_date order: days 1..7 and 8..14.
Fortnight(e1, e2, sl, st) ==
    [d \in 1..FortnightDays |->
        [log_date |-> d,
         work_hours |-> IF d <= FortnightDays \div 2 THEN 60 ELSE 90,
         productivity_score |-> IF d <= FortnightDays \div 2 THEN 700 ELSE 500,
         energy_score |-> IF d <= FortnightDays \div 2 THEN e1 ELSE e2,
         sleep_hours |-> sl, stress_level |-> st]]

InitBurnout ==
    /\ now = 0
    /\ users = {[id |-> u, last_checkin |-> NoValue] : u \in UserIds}
    /\ daily_logs = {}
    /\ streaks = {}
    /\ burnout_scores = {}
    /\ insights = {}
    /\ events = {}
    /\ habits = {}
    /\ habit_logs = {}
    /\ goals = {}
    /\ requests = 0
    /\ sess = [s \in Sessions |-> IdleSession]
    /\ \E e1 \in EnergyLevels, e2 \in EnergyLevels, sl \in SleepLevels, st \in StressLevels,
          prev \in {{}, {[risk_score |-> 100]}} :
          cell = [logs |-> Fortnight(e1, e2, sl, st), prev |-> prev, out |-> NoRow]

ApplyBurnout ==
    /\ cell.out = NoRow
    /\ cell' = [cell EXCEPT !.out = BurnoutOf(cell.logs, cell.prev)]
    /\ UNCHANGED <<now, tables, requests, sess>>

SpecBurnout == InitBurnout /\ [][ApplyBurnout]_vars

\* C14: for 14 logs in the window, the 7 older with work_hours 6 and
\* productivity_score 70 and the 7 newer with work_hours 9 and
\* productivity_score 50, calculate_burnout_risk yields workload_trend > 40
\* and a 'High Workload' entry in risk_factors.
C14_HighWorkloadReported ==
    cell.out # NoRow =>
        /\ cell.out.workload_trend > 400
        /\ \E k \in 1..Len(cell.out.risk_factors) : cell.out.risk_factors[k] = "High Workload"

\* C14: the function has run on such a fortnight and returned
\* workload_trend 35.0 with no 'High Workload' entry.
C14_WorkloadTrend35 ==
    /\ cell.out # NoRow
    /\ cell.out.workload_trend = 350
    /\ \A k \in 1..Len(cell.out.risk_factors) : cell.out.risk_factors[k] # "High Workload"

----------------------------------------------------------------------------
(* Request validation of the check-in routes: schemas/daily_log.py.        *)

\* DailyLogCreate: the Field(ge=, le=) bounds of lines 8-18 (hours in tenths).
DailyLogCreate(p) ==
    /\ p.work_hours \in 0..240
    /\ p.deep_work_hours \in 0..240
    /\ p.tasks_completed >= 0
    /\ p.tasks_planned >= 0
    /\ p.interruptions >= 0
    /\ p.focus_score \in 1..10
    /\ p.energy_score \in 1..10
    /\ p.stress_level \in 1..10
    /\ p.sleep_hours \in 0..240
    /\ p.exercise_minutes >= 0

\* DailyLogUpdate: every field is Optional[...] = None with no Field bounds,
\* so any number of the field's type validates.
DailyLogUpdate(data) ==
    DOMAIN data \subseteq {"work_hours", "deep_work_hours", "tasks_completed",
                           "tasks_planned", "interruptions", "focus_score",
                           "energy_score", "stress_level", "sleep_hours",
                           "exercise_minutes"}

\* 422 of FastAPI for a body that fails validation.
RequestValidationError == [type |-> "RequestValidationError", status_code |-> 422]

\* The body fails validation: the handler is never called.
Reject(s, op, user, req) ==
    /\ ~InFlight(s)
    /\ requests' = requests + 1
    /\ sess' = [sess EXCEPT ![s] = [IdleSession EXCEPT !.op = op, !.rid = requests + 1,
                                                      !.user = user, !.req = req,
                                                      !.status = RequestValidationError.status_code,
                                                      !.exc = RequestValidationError]]
    /\ UNCHANGED <<now, tables, cell>>

\* Bodies of POST /checkins/ with a value outside the documented range.
OutOfRangeProfiles ==
    LET good == CHOOSE p \in Profiles : p.focus_score = 8
    IN  {[good EXCEPT !.stress_level = 11], [good EXCEPT !.work_hours = 250]}

\* Bodies of PUT /checkins/{log_date} with a value outside the documented range.
OutOfRangeUpdates ==
    { [stress_level |-> 11], [work_hours |-> 300], [energy_score |-> 20],
      [deep_work_hours |-> -500] }

MaxValidationDay == 1
MaxValidationRequests == 3

PostCheckinBody ==
    /\ requests < MaxValidationRequests
    /\ \E u \in UserIds, d \in 0..MaxValidationDay, p \in Profiles \cup OutOfRangeProfiles :
          IF DailyLogCreate(p) THEN StartCreateCheckin("s1", u, d, p)
          ELSE Reject("s1", "create_checkin", u, p @@ [log_date |-> d])

PutCheckinBody ==
    /\ requests < MaxValidationRequests
    /\ \E u \in UserIds, d \in 0..MaxValidationDay, data \in Updates \cup OutOfRangeUpdates :
          IF DailyLogUpdate(data) THEN StartUpdateCheckin("s1", u, d, data)
          ELSE Reject("s1", "update_checkin", u, [log_date |-> d, data |-> data])

NextValidation ==
    \/ PostCheckinBody
    \/ PutCheckinBody
    \/ CheckinStep("s1")

SpecValidation == Init /\ [][NextValidation]_vars

\* The documented ranges of a daily log's inputs.
InRange(l) ==
    /\ l.focus_score \in 1..10
    /\ l.energy_score \in 1..10
    /\ l.stress_level \in 1..10
    /\ l.work_hours \in 0..240
    /\ l.sleep_hours \in 0..240

\* C15: a request carrying an out-of-range daily-log value is rejected before
\* anything is persisted, by update_checkin as well as by create_checkin, so
\* no stored DailyLog ever holds an out-of-range value.
C15_StoredLogsInRange ==
    /\ \A l \in daily_logs : InRange(l)
    /\ \A s \in Sessions :
          (/\ sess[s].op \in {"create_checkin", "update_checkin"}
           /\ sess[s].pc = "done"
           /\ sess[s].status \in {200, 201})
          => IF sess[s].op = "create_checkin" THEN InRange(sess[s].req)
             ELSE InRange(sess[s].req.data @@ [focus_score |-> 5, energy_score |-> 5,
                                               stress_level |-> 5, work_hours |-> 0,
                                               sleep_hours |-> 0])

\* An update_checkin carrying stress_level 11 was answered 200 and the value
\* is committed, while the same value sent to create_checkin is never stored
\* by it (every committed row was created from an in-range body).
C15_OutOfRangeStored ==
    /\ sess["s1"].op = "update_checkin"
    /\ sess["s1"].pc = "done"
    /\ sess["s1"].status = 200
    /\ sess["s1"].req.data = [stress_level |-> 11]
    /\ \E l \in daily_logs : l.log_date = sess["s1"].req.log_date /\ l.stress_level = 11

----------------------------------------------------------------------------
(* Ownership: the routes that take a row id, called by two users.          *)

Owners == {"u1", "u2"}

\* A handler that runs from request to response in one step on session s:
\* the tables after its commit (or as they were, after its rollback) and the
\* rows of its response body.
Respond(s, op, user, req, exc, new, body) ==
    /\ ~InFlight(s)
    /\ requests' = requests + 1
    /\ sess' = [sess EXCEPT ![s] =
                   [IdleSession EXCEPT !.op = op, !.rid = requests + 1, !.user = user,
                                       !.req = req, !.exc = exc,
                                       !.status = IF exc = NoException
                                                  THEN IF op \in {"delete_habit", "delete_goal"}
                                                       THEN 204 ELSE status_code(op)
                                                  ELSE global_exception_handler(exc)]]
    /\ SetTables(new)
    /\ cell' = body
    /\ UNCHANGED now

\* habits.py lines 81-104 (updated_at is not a column of the model's rows)
update_habit(s, u, habit_id, data) ==
    LET found == {h \in habits : h.id = habit_id /\ h.user_id = u}
        habit == CHOOSE h \in found : TRUE
        set == [f \in DOMAIN habit |-> IF f \in DOMAIN data THEN data[f] ELSE habit[f]]
        req == [habit_id |-> habit_id, data |-> data]
    IN  IF found = {} THEN Respond(s, "update_habit", u, req, HTTPException(404), Committed, {})
        ELSE Respond(s, "update_habit", u, req, NoException,
                     [Committed EXCEPT !.habits = (@ \ {habit}) \cup {set}], {set})

\* habits.py lines 107-123; Habit.logs cascades "all, delete-orphan"
delete_habit(s, u, habit_id) ==
    LET found == {h \in habits : h.id = habit_id /\ h.user_id = u}
        req == [habit_id |-> habit_id]
    IN  IF found = {} THEN Respond(s, "delete_habit", u, req, HTTPException(404), Committed, {})
        ELSE Respond(s, "delete_habit", u, req, NoException,
                     [Committed EXCEPT !.habits = @ \ found,
                                       !.habit_logs = {l \in @ : l.habit_id # habit_id}], {})

\* habits.py lines 193-209
get_habit_logs(s, u, habit_id, days) ==
    LET start_date == now - days
        logs == {l \in habit_logs : /\ l.habit_id = habit_id
                                    /\ l.user_id = u
                                    /\ l.log_date >= start_date}
    IN  Respond(s, "get_habit_logs", u, [habit_id |-> habit_id, days |-> days],
                NoException, Committed, logs)

\* goals.py lines 156-172
delete_goal(s, u, goal_id) ==
    LET found == {g \in goals : g.id = goal_id /\ g.user_id = u}
        req == [goal_id |-> goal_id]
    IN  IF found = {} THEN Respond(s, "delete_goal", u, req, HTTPException(404), Committed, {})
        ELSE Respond(s, "delete_goal", u, req, NoException,
                     [Committed EXCEPT !.goals = @ \ found], {})

\* analytics_routes.py lines 90-112
update_insight(s, u, insight_id, data) ==
    LET found == {i \in insights : i.id = insight_id /\ i.user_id = u}
        insight == CHOOSE i \in found : TRUE
        set == [f \in DOMAIN insight |-> IF f \in DOMAIN data THEN data[f] ELSE insight[f]]
        req == [insight_id |-> insight_id, data |-> data]
    IN  IF found = {} THEN Respond(s, "update_insight", u, req, HTTPException(404), Committed, {})
        ELSE Respond(s, "update_insight", u, req, NoException,
                     [Committed EXCEPT !.insights = (@ \ {insight}) \cup {set}], {set})

\* Rows each user owns when the requests start: a habit with one completed
\* log, a goal and an insight.
RowsOwned(u) ==
    [habits |-> {[NewHabit(<<0, u>>, u, [target_type |-> "binary", target_value |-> 1,
                                          target_days_per_week |-> 7])
                    EXCEPT !.created_at = 0]},
     habit_logs |-> {[id |-> <<0, u>>, user_id |-> u, habit_id |-> <<0, u>>,
                      log_date |-> 0, completed |-> TRUE, progress_value |-> 0,
                      notes |-> "None", completed_at |-> 0]},
     goals |-> {[g EXCEPT !.id = <<0, u>>, !.user_id = u] :
                   g \in {x \in StoredGoals : x.current_value = 8 /\ x.deadline = 2}},
     insights |-> {[id |-> <<0, u>>, user_id |-> u, title |-> "Best Day Pattern",
                    created_at |-> 0, is_read |-> FALSE, is_dismissed |-> FALSE]}]

InitOwnership ==
    /\ now = 0
    /\ users = {[id |-> u, last_checkin |-> NoValue] : u \in Owners}
    /\ daily_logs = {}
    /\ streaks = {}
    /\ burnout_scores = {}
    /\ events = {}
    /\ habits = UNION {RowsOwned(u).habits : u \in Owners}
    /\ habit_logs = UNION {RowsOwned(u).habit_logs : u \in Owners}
    /\ goals = UNION {RowsOwned(u).goals : u \in Owners}
    /\ insights = UNION {RowsOwned(u).insights : u \in Owners}
    /\ requests = 0
    /\ sess = [s \in Sessions |-> IdleSession]
    /\ cell = {}

MaxOwnershipRequests == 3

\* The ids a client can name: a row of the table, or none.
IdsOf(rows) == {r.id : r \in rows} \cup {NoRow.id}

PutHabit ==
    /\ requests < MaxOwnershipRequests
    /\ \E u \in Owners, h \in IdsOf(habits) :
          update_habit("s1", u, h, [target_value |-> 2])

DeleteHabit ==
    /\ requests < MaxOwnershipRequests
    /\ \E u \in Owners, h \in IdsOf(habits) : delete_habit("s1", u, h)

GetHabitLogs ==
    /\ requests < MaxOwnershipRequests
    /\ \E u \in Owners, h \in IdsOf(habits) : get_habit_logs("s1", u, h, 30)

PostHabitLogOwned ==
    /\ requests < MaxOwnershipRequests
    /\ \E u \in Owners, h \in IdsOf(habits), d \in 0..1 :
          StartLogHabit("s1", u, [completed |-> TRUE, progress_value |-> 3,
                                  notes |-> "felt easy", habit_id |-> h, log_date |-> d])

PutGoalOwned ==
    /\ requests < MaxOwnershipRequests
    /\ \E u \in Owners, g \in IdsOf(goals) :
          StartUpdateGoal("s1", u, g, [current_value |-> 12])

PostGoalProgressOwned ==
    /\ requests < MaxOwnershipRequests
    /\ \E u \in Owners, g \in IdsOf(goals) : StartAddGoalProgress("s1", u, g, 2)

DeleteGoal ==
    /\ requests < MaxOwnershipRequests
    /\ \E u \in Owners, g \in IdsOf(goals) : delete_goal("s1", u, g)

PutInsight ==
    /\ requests < MaxOwnershipRequests
    /\ \E u \in Owners, i \in IdsOf(insights) :
          update_insight("s1", u, i, [is_read |-> TRUE])

OwnershipStep ==
    \/ LogHabitSelect("s1")
    \/ LogHabitExisting("s1")
    \/ LogHabitFlush("s1")
    \/ LogHabitStats("s1")
    \/ LogHabitStatsFlush("s1")
    \/ LogHabitEvent("s1")
    \/ UpdateGoalSelect("s1")
    \/ AddGoalProgressSelect("s1")
    \/ GoalFlush("s1")
    \/ Commit("s1")

NextOwnership ==
    \/ PutHabit
    \/ DeleteHabit
    \/ GetHabitLogs
    \/ PostHabitLogOwned
    \/ PutGoalOwned
    \/ PostGoalProgressOwned
    \/ DeleteGoal
    \/ PutInsight
    \/ OwnershipStep

SpecOwnership == InitOwnership /\ [][NextOwnership]_vars

\* The rows of user u in every table.
UserRows(u) ==
    [t \in TableNames |->
        {r \in Committed[t] : IF t = "users" THEN r.id = u ELSE r.user_id = u}]

\* The id a request names, and the rows of other users that carry it.
NamedId(q) ==
    IF q.op \in {"update_habit", "delete_habit", "log_habit", "get_habit_logs"}
    THEN q.req.habit_id
    ELSE IF q.op = "update_insight" THEN q.req.insight_id
    ELSE q.req.goal_id
NamesForeignRow(q) ==
    LET rows == IF q.op \in {"update_habit", "delete_habit", "log_habit", "get_habit_logs"}
                THEN habits
                ELSE IF q.op = "update_insight" THEN insights ELSE goals
    IN  \E r \in rows : r.id = NamedId(q) /\ r.user_id # q.user
Answered(q) == q.op # "idle" /\ q.pc = "done"

----------------------------------------------------------------------------
(* The progress_percentage of the goal responses: routes/goals.py.         *)

\* The ratio in percent without the cap at 100.
progress_unbounded(goal) ==
    IF goal.target_value > 0
    THEN RoundSigned(1000 * goal.current_value, goal.target_value)
    ELSE 0

\* lines 32, 67, 106, 149 with the round(progress, 1) of the response, in
\* tenths of a percent.
progress_percentage(goal) ==
    IF goal.target_value > 0
    THEN RoundSigned(Min2(1000 * goal.current_value, 1000 * goal.target_value),
                     goal.target_value)
    ELSE 0

\* GoalResponse(**columns, progress_percentage=round(progress, 1))
GoalResponse(goal) == goal @@ [progress_percentage |-> progress_percentage(goal)]

\* The response of create_goal, update_goal or add_goal_progress once the
\* handler has returned: built from the refreshed row.
ReturnedGoal(s) ==
    GoalResponse(RowById(s, "goals",
                         IF sess[s].op = "create_goal" THEN <<sess[s].rid, "goal">>
                         ELSE sess[s].loc.obj.id))

\* lines 16-39
get_goals(s, u, status) ==
    LET rows == {g \in goals : g.user_id = u /\ (status # "None" => g.status = status)}
    IN  Respond(s, "get_goals", u, [status |-> status], NoException, Committed,
                {GoalResponse(g) : g \in rows})

\* Goal rows the table holds when the server starts, among them one whose
\* target_value is 0 (GoalCreate asks for target_value > 0 and no route
\* changes it).
StoredTargets ==
    StoredGoals \cup {_update_goal_score([g EXCEPT !.target_value = 0], 0) : g \in StoredGoals}

InitGoalProgress ==
    /\ now = 0
    /\ users = {[id |-> u, last_checkin |-> NoValue] : u \in UserIds}
    /\ daily_logs = {}
    /\ streaks = {}
    /\ burnout_scores = {}
    /\ insights = {}
    /\ events = {}
    /\ habits = {}
    /\ habit_logs = {}
    /\ goals \in {{g} : g \in StoredTargets}
    /\ requests = 0
    /\ sess = [s \in Sessions |-> IdleSession]
    /\ cell = {}

GetGoals ==
    /\ requests < MaxGoalRequests
    /\ \E u \in UserIds, status \in {"None", "active"} : get_goals("s1", u, status)

NextGoalProgress ==
    \/ PostGoal("s1")
    \/ PutGoal("s1")
    \/ PostGoalProgress("s1")
    \/ GetGoals
    \/ GoalStep("s1")

SpecGoalProgress == InitGoalProgress /\ [][NextGoalProgress]_vars

\* min(current_value / target_value * 100, 100) to one decimal when
\* target_value > 0, else 0, in tenths of a percent.
CappedPercent(r) ==
    IF r.target_value <= 0 THEN 0
    ELSE IF r.current_value >= r.target_value THEN 1000
    ELSE RoundSigned(1000 * r.current_value, r.target_value)

\* C18: the progress_percentage returned for a goal by get_goals, create_goal,
\* update_goal and add_goal_progress equals min(current_value / target_value
\* * 100, 100) rounded to one decimal when target_value > 0, and 0 when
\* target_value <= 0.
C18_ProgressPercentage ==
    \A s \in Sessions :
        /\ (sess[s].op \in {"create_goal", "update_goal", "add_goal_progress"}
            /\ sess[s].pc = "commit")
              => ReturnedGoal(s).progress_percentage = CappedPercent(ReturnedGoal(s))
        /\ (sess[s].op = "get_goals" /\ sess[s].pc = "done")
              => \A r \in cell : r.progress_percentage = CappedPercent(r)

\* get_goals returned a goal whose current_value is above its positive
\* target, with progress_percentage 100.0.
C18_CappedReturned ==
    /\ sess["s1"].op = "get_goals"
    /\ sess["s1"].pc = "done"
    /\ \E r \in cell : /\ r.target_value > 0
                       /\ r.current_value > r.target_value
                       /\ r.progress_percentage = 1000

----------------------------------------------------------------------------
(* The habit streak after log_habit.                                       *)

\* The dates of the completed logs of habit h.
CompletedDates(h) == {l.log_date : l \in {x \in habit_logs : x.habit_id = h.id /\ x.completed}}

\* d belongs to the chain of D that starts at the most recent date: every
\* date of D after d has another date of D at most two days before it.
InChain(d, D) == \A e \in D : e > d => \E f \in D : f < e /\ e - f <= 2
ChainLength(D) == Cardinality({d \in D : InChain(d, D)})

\* C19: for any set of completed HabitLog dates of a habit, after log_habit
\* the habit's current_streak is the number of completed dates in the chain
\* that starts at the most recent completed date and walks backwards while
\* each step is at most 2 days.
C19_StreakIsChain ==
    \A h \in habits :
        (\E l \in habit_logs : l.habit_id = h.id)
            => h.current_streak = ChainLength(CompletedDates(h))

\* log_habit was answered 201 for a habit whose only log is no longer
\* completed, and the habit still carries the streak of the withdrawn
\* completion.
C19_StreakOfWithdrawnCompletion ==
    /\ sess["s1"].op = "log_habit"
    /\ sess["s1"].pc = "done"
    /\ sess["s1"].status = 201
    /\ \E h \in habits :
          /\ h.id = sess["s1"].req.habit_id
          /\ CompletedDates(h) = {}
          /\ h.total_completions = 0
          /\ h.current_streak = 1

----------------------------------------------------------------------------
(* The Streak row of a user under concurrent check-ins.                    *)

\* C20: after any sequence and any interleaving of create_checkin requests
\* of one user there is at most one Streak row for (user_id, streak_type =
\* 'checkin').
C20_OneStreakRowPerUser ==
    \A r, q \in streaks :
        (r.user_id = q.user_id /\ r.streak_type = q.streak_type) => r.id = q.id

\* Two first check-ins of one user for different dates were both answered
\* 201 and each committed the Streak row it inserted.
C20_TwoStreakRowsCommitted ==
    /\ \A s \in Sessions : /\ sess[s].op = "create_checkin"
                           /\ sess[s].pc = "done"
                           /\ sess[s].status = 201
    /\ sess["s1"].user = sess["s2"].user
    /\ sess["s1"].req.log_date # sess["s2"].req.log_date
    /\ \A s \in Sessions :
          \E r \in streaks : /\ r.id = <<sess[s].rid, "streak">>
                             /\ r.user_id = sess[s].user
                             /\ r.streak_type = "checkin"
                             /\ r.current_count = 1

----------------------------------------------------------------------------
(* BurnoutScore rows: written by create_checkin, read by GET               *)
(* /analytics/burnout.                                                     *)

\* analytics_routes.py lines 39-66: the engine's output for today and the
\* stored rows of the last 30 days; nothing is added to the session.
burnout_summary(s, u) ==
    \E prev \in PrevScores(s, u, now) :
        LET current_risk == calculate_burnout_risk(s, {}, u, now, prev)
            history == {b \in burnout_scores : b.user_id = u /\ b.score_date >= now - 30}
        IN  Respond(s, "burnout_summary", u, [today |-> now], NoException, Committed,
                    {[current_risk_score |-> current_risk.risk_score,
                      trend_direction |-> current_risk.trend_direction,
                      history |-> history]})

GetBurnout(s) ==
    /\ requests < MaxRequests
    /\ \E u \in UserIds : burnout_summary(s, u)

NextBurnoutRows ==
    \E s \in Sessions :
        \/ PostCheckin(s)
        \/ PutCheckin(s)
        \/ GetBurnout(s)
        \/ CheckinStep(s)
        \/ DbFail(s)

SpecBurnoutRows == Init /\ [][NextBurnoutRows]_vars

\* C21: there is at most one BurnoutScore row per (user_id, score_date), and
\* once a row is created no operation (create_checkin for another date,
\* update_checkin for the same date, GET /analytics/burnout) changes any of
\* its fields.
C21_BurnoutRowsHistorical ==
    /\ [](\A b, c \in burnout_scores :
            (b.user_id = c.user_id /\ b.score_date = c.score_date) => b.id = c.id)
    /\ [][\A b \in burnout_scores : b \in burnout_scores']_vars

\* The BurnoutScore of the first check-in is stored as that check-in wrote
\* it after an update_checkin of its date and a GET /analytics/burnout were
\* both answered 200.
C21_RowKeptAfterUpdateAndRead ==
    /\ sess["s1"].op = "update_checkin"
    /\ sess["s1"].pc = "done"
    /\ sess["s1"].status = 200
    /\ sess["s2"].op = "burnout_summary"
    /\ sess["s2"].pc = "done"
    /\ sess["s2"].status = 200
    /\ \E b \in burnout_scores : /\ b.id = <<1, "burnout">>
                                 /\ b.score_date = sess["s1"].req.log_date
                                 /\ b \in UNION {r.history : r \in cell}

----------------------------------------------------------------------------
(* The derived stats of a habit after log_habit.                           *)

CompletedRows(h) == {l \in habit_logs : l.habit_id = h.id /\ l.completed}

\* C22: after every log_habit call total_completions equals the number of
\* the habit's HabitLog rows with completed = true and current_streak is
\* recomputed from those rows, so current_streak never exceeds
\* total_completions.
C22_StatsReflectLogs ==
    \A h \in habits :
        (\E l \in habit_logs : l.habit_id = h.id)
            => /\ h.total_completions = Cardinality(CompletedRows(h))
               /\ h.current_streak <= h.total_completions

\* An upsert answered 201 turned the habit's only completed log into a
\* not-completed one: the row is stored with completed = false and the
\* habit's current_streak exceeds its total_completions.
C22_StreakAboveCompletions ==
    /\ sess["s1"].op = "log_habit"
    /\ sess["s1"].pc = "done"
    /\ sess["s1"].status = 201
    /\ \E h \in habits :
          /\ h.id = sess["s1"].req.habit_id
          /\ \E l \in habit_logs : /\ l.habit_id = h.id
                                   /\ l.log_date = sess["s1"].req.log_date
                                   /\ ~l.completed
                                   /\ l.id[1] < sess["s1"].rid
          /\ h.total_completions = Cardinality(CompletedRows(h))
          /\ h.current_streak > h.total_completions

----------------------------------------------------------------------------
(* The burnout trend over a calendar with a gap: a first week of check-ins *)
(* and one check-in more than a fortnight later.                           *)

TrendDays == {1, 2, 3, 4, 5, 6, 20}
MaxTrendRequests == 7

UnloggedTrend == {d \in TrendDays : \A l \in daily_logs : l.log_date # d}

\* The earliest day not logged, or the one after it.
NextTrendDays == {d \in UnloggedTrend : Cardinality({e \in UnloggedTrend : e < d}) <= 1}

PostCheckinTrend ==
    /\ requests < MaxTrendRequests
    /\ \E u \in UserIds, d \in NextTrendDays :
          StartCreateCheckin("s1", u, d, EngineProfile(d))

NextTrend ==
    \/ PostCheckinTrend
    \/ CreateStep("s1")

SpecTrend == Init /\ [][NextTrend]_vars

\* The stored BurnoutScore rows of b's user with the greatest score_date
\* strictly earlier than b's, among those stored when b was computed.
PrecedingScores(b) ==
    LET before == {c \in burnout_scores : /\ c.user_id = b.user_id
                                          /\ c.id[1] < b.id[1]
                                          /\ c.score_date < b.score_date}
    IN  {c \in before : \A e \in before : e.score_date <= c.score_date}

DirectionOf(change) ==
    IF change > 50 THEN "worsening" ELSE IF change < 0 - 50 THEN "improving" ELSE "stable"

----------------------------------------------------------------------------
(* The recommendations of the burnout engine.                              *)

\* C24: the recommendations list returned by calculate_burnout_risk is
\* non-empty for every reachable log history and target_date (create_checkin
\* stores the list it was returned in the BurnoutScore row).
C24_RecommendationsNonEmpty ==
    \A b \in burnout_scores : b.recommendations # <<>>

\* A check-in with fewer than 5 logs in its window was answered 201 and
\* stored an empty list, and a check-in with at least 5 logs stored a list
\* with a recommendation in it.
C24_EmptyRecommendationsStored ==
    /\ sess["s1"].op = "create_checkin"
    /\ sess["s1"].pc = "done"
    /\ sess["s1"].status = 201
    /\ \E b \in burnout_scores :
          /\ Cardinality(WindowAtScore(b)) < BurnoutMinLogs
          /\ Len(b.recommendations) = 0
    /\ \E c \in burnout_scores :
          /\ Cardinality(WindowAtScore(c)) >= BurnoutMinLogs
          /\ Len(c.recommendations) >= 1

-----------------------------------------------------------------------------
(* _analyze_best_day on its own: cell holds the logs handed to the detector,*)
(* in log_date order as generate_insights queries them, and the list the    *)
(* detector returns.  The dates cover Monday..Wednesday of two weeks, so a  *)
(* weekday has 0, 1 or 2 samples.                                           *)

BestDayDates == {0, 1, 2, 7, 8, 9}
ProductivityLevels == {500, 580, 700}

InitBestDay ==
    /\ now = 0
    /\ users = {[id |-> u, last_checkin |-> NoValue] : u \in UserIds}
    /\ daily_logs = {}
    /\ streaks = {}
    /\ burnout_scores = {}
    /\ insights = {}
    /\ events = {}
    /\ habits = {}
    /\ habit_logs = {}
    /\ goals = {}
    /\ requests = 0
    /\ sess = [s \in Sessions |-> IdleSession]
    /\ \E D \in SUBSET BestDayDates : \E score \in [D -> ProductivityLevels] :
          cell = [logs |-> SortByDate({[id |-> <<d, "daily_logs">>, log_date |-> d,
                                        productivity_score |-> score[d]] : d \in D}),
                  ran |-> FALSE, out |-> <<>>]

ApplyBestDay ==
    /\ ~cell.ran
    /\ cell' = [cell EXCEPT !.ran = TRUE, !.out = _analyze_best_day(cell.logs)]
    /\ UNCHANGED <<now, tables, requests, sess>>

SpecBestDay == InitBestDay /\ [][ApplyBestDay]_vars

\* The productivity samples of one weekday among the cell's logs.
SamplesOn(w) ==
    SelectSeq(cell.logs, LAMBDA l : HasProductivity(l) /\ Weekday(l.log_date) = w)

\* Weekdays with at least n samples.
WeekdaysWith(n) == {w \in 0..6 : Len(SamplesOn(w)) >= n}

\* avg(a) - avg(b) > 8 points, on scores held in tenths.
SpreadExceeds8(a, b) ==
    LET ta == SumSeq([i \in 1..Len(SamplesOn(a)) |-> SamplesOn(a)[i].productivity_score])
        tb == SumSeq([i \in 1..Len(SamplesOn(b)) |-> SamplesOn(b)[i].productivity_score])
    IN  ta * Len(SamplesOn(b)) - tb * Len(SamplesOn(a))
            > 80 * Len(SamplesOn(a)) * Len(SamplesOn(b))

\* C25: _analyze_best_day returns an insight only when at least 3 distinct
\* weekdays each have at least 2 productivity samples, and then only if the
\* best and the worst weekday average differ by more than 8 points.
C25_BestDayNeedsThreeWeekdays ==
    (cell.ran /\ cell.out # <<>>) =>
        /\ Cardinality(WeekdaysWith(2)) >= 3
        /\ \E a \in WeekdaysWith(2), b \in WeekdaysWith(2) : SpreadExceeds8(a, b)

\* C25 as the code has it: three weekdays with a sample, two of them with
\* two samples whose averages differ by more than 8 points.
C25_BestDayAsCoded ==
    cell.ran =>
        (cell.out # <<>> <=>
            /\ Cardinality(WeekdaysWith(1)) >= 3
            /\ \E a \in WeekdaysWith(2), b \in WeekdaysWith(2) : SpreadExceeds8(a, b))

\* C25 witness: the detector returned an insight for logs in which only two
\* weekdays have two samples and a third weekday has one.
C25_InsightFromTwoAveragedWeekdays ==
    /\ cell.ran
    /\ cell.out # <<>>
    /\ Cardinality(WeekdaysWith(2)) = 2
    /\ Cardinality(WeekdaysWith(1)) = 3

-----------------------------------------------------------------------------
(* Which rows a check-in request writes.                                    *)

\* The computed fields of a DailyLog.
ComputedFields(r) == <<r.productivity_score, r.energy_index, r.consistency_score>>

\* The request of session s names row r: its user's log of its log_date.
Targets(s, r) == r.user_id = sess[s].user /\ r.log_date = sess[s].req.log_date

\* C26: a step changes the computed fields of a stored DailyLog only when it
\* commits a check-in request of that log's user on that log's date, other
\* logs keep theirs; and a step that commits an update_checkin leaves the
\* Streak, BurnoutScore, Insight and Event rows as they were.
C26_OnlyTargetedLogScored ==
    [][/\ \A r \in daily_logs : \A q \in daily_logs' :
              (q.id = r.id /\ ComputedFields(q) # ComputedFields(r))
                  => \E s \in Sessions :
                        /\ Commits(s)
                        /\ sess[s].op \in {"create_checkin", "update_checkin"}
                        /\ Targets(s, r)
       /\ \A s \in Sessions :
              (Commits(s) /\ sess[s].op = "update_checkin")
                  => UNCHANGED <<streaks, burnout_scores, insights, events>>]_vars

\* C26 witness: an update_checkin answered 200, and another log of the user
\* whose window holds the edited date still stores a consistency_score that
\* differs from the one its window gives now.
C26_StaleConsistencyKept ==
    /\ Ended("s1", "update_checkin")
    /\ sess["s1"].status = 200
    /\ \E r \in daily_logs :
          /\ r.user_id = sess["s1"].user
          /\ r.log_date > sess["s1"].req.log_date
          /\ r.log_date - ConsistencyWindow <= sess["s1"].req.log_date
          /\ r.consistency_score
                 # calculate_consistency_score("s1", {}, r.user_id, r.log_date)

-----------------------------------------------------------------------------
(* The response of create_goal.                                             *)

\* The goal row a create_goal request of session s has committed.
CreatedGoals(s) == {g \in goals : g.id = <<sess[s].rid, "goal">>}

\* C27: a create_goal with a valid body (target_value > 0, with or without a
\* deadline) that the database did not fail is answered 201 and has stored
\* its goal with status 'active', current_value 0, goal_score 0.0 and a
\* numeric success_probability: the estimate on the new object does not fail.
C27_CreateGoalSucceeds ==
    \A s \in Sessions :
        (Ended(s, "create_goal") /\ sess[s].exc.type # "OperationalError") =>
            /\ sess[s].status = 201
            /\ \E g \in CreatedGoals(s) :
                  /\ g.status = "active"
                  /\ g.current_value = 0
                  /\ g.goal_score = 0
                  /\ g.success_probability # NoValue

\* C27 witness: a create_goal with a valid body ended in TypeError, was
\* answered 500 and stored no goal.
C27_CreateGoalTypeError ==
    \E s \in Sessions :
        /\ Ended(s, "create_goal")
        /\ sess[s].req.target_value > 0
        /\ sess[s].exc.type = "TypeError"
        /\ sess[s].status = 500
        /\ CreatedGoals(s) = {}

-----------------------------------------------------------------------------
(* The check-in streak under overlapping requests on five dates: every      *)
(* request is a create_checkin of the one user with the same body.          *)

MaxRaceDay == 4
MaxRaceRequests == 5

\* Dates no request has named yet: the client posts each day once.
UnloggedRace ==
    {d \in 0..MaxRaceDay :
        /\ \A l \in daily_logs : l.log_date # d
        /\ \A o \in Sessions : InFlight(o) => sess[o].req.log_date # d}

\* Session s2 carries one request, the slow one; s1 carries the others.
PostCheckinRace(s) ==
    /\ requests < MaxRaceRequests
    /\ s = "s2" => sess[s].op = "idle"
    /\ \E u \in UserIds, d \in UnloggedRace :
          StartCreateCheckin(s, u, d, EngineProfile(0))

NextStreakRace ==
    \E s \in Sessions :
        \/ PostCheckinRace(s)
        \/ CreateStep(s)

SpecStreakRace == Init /\ [][NextStreakRace]_vars

\* C28: every check-in Streak row has 1 <= current_count <= longest_count,
\* and no step lowers the longest_count of a stored Streak row.
C28_StreakCountsOrdered ==
    /\ [](\A r \in streaks :
              r.streak_type = "checkin" =>
                  (1 <= r.current_count /\ r.current_count <= r.longest_count))
    /\ [][\A r \in streaks : \A q \in streaks' :
              q.id = r.id => q.longest_count >= r.longest_count]_vars

\* C28 witness: a create_checkin about to commit holds a Streak row whose
\* longest_count is below the committed one of the same row: it loaded the
\* row before other check-ins raised it.
C28_LowerLongestStaged ==
    \E s \in Sessions :
        /\ At(s, "create_checkin", "commit")
        /\ \E w \in sess[s].tx.streaks : \E r \in streaks :
              /\ w.id = r.id
              /\ w.longest_count < r.longest_count

-----------------------------------------------------------------------------
(* Range of the stored success_probability (tenths of a percent).           *)

-----------------------------------------------------------------------------
(* The completion event of add_goal_progress.                               *)

\* The commit of session s turns the stored goal of its request from
\* 'active' to 'completed'.
CompletesGoal(s) ==
    \E b \in goals : \E a \in goals' :
        /\ b.id = sess[s].req.goal_id
        /\ a.id = b.id
        /\ b.status = "active"
        /\ a.status = "completed"

\* The commit of session s stores a 'goal_completed' Event.
RecordsCompletion(s) ==
    \E e \in events' \ events :
        e.event_type = "goal_completed" /\ e.event_data = sess[s].req.goal_id

====
